---------------------------- MODULE Spec2Model ----------------------------
(***************************************************************************)
(* State-machine model of golang-dsa's generic priority queue              *)
(* (src/priorityqueue/priorityqueue.go), stack (src/stack/stack.go) and    *)
(* queue (package queue).                                                  *)
(*                                                                         *)
(* PriorityQueue[T] wraps a priorityHeap[T] and drives it through Go's     *)
(* container/heap package.  The heap.Interface methods Len, Less, Swap,    *)
(* Push and Pop are translated from priorityqueue.go; the package          *)
(* functions heap.Init/Push/Pop/Remove/Fix and their helpers up/down are   *)
(* the Go standard library's, transcribed statement by statement (they are *)
(* named heapInit, heapPush, heapPop, heapRemove, heapFix, up, down).      *)
(*                                                                         *)
(* Go slices are 0-based, TLA+ sequences 1-based: position i of            *)
(* h.items is h.items[i + 1] here; every index in the model is the Go      *)
(* index.  *Item[T] pointers are handles 1..MaxGrown, allocated in order   *)
(* by NewItem; Item.Value and Item.Index are the functions Value and Index *)
(* of the queue record, so a handle that has left the backing array keeps  *)
(* its fields, as the Go object does.                                      *)
(*                                                                         *)
(* Stack[T] and Queue[T] are singly linked lists of Node[T].  *Node[T]     *)
(* pointers are addresses 1..MaxNodes, allocated in order by Push, nil is  *)
(* 0; Node.Value and Node.Next are the functions Value and Next of the     *)
(* stack or queue record.  Their methods carry the prefix Stack or Queue   *)
(* (StackPush, QueuePop, ...), the priority queue's keep their Go names.   *)
(***************************************************************************)
EXTENDS Integers, Sequences, FiniteSets, TLC

\* ------------------------------------------------------------------ bounds
\* Number of Push calls (= Items allocated by NewItem) in one behaviour.
MaxItems == 4
\* Number of Push calls in a behaviour that only grows and shrinks the heap
\* (mode "grow"): enough for an Item with a sibling subtree two levels down.
MaxGrown == 6
\* Values are jobs/tasks with a Priority in 1..MaxPriority ...
MaxPriority == 2
\* ... and a Duration in 1..MaxDuration (the tie-break field of jobCompare).
MaxDuration == 2
\* Number of Nodes a Stack or a Queue allocates (its Push calls) in one behaviour.
MaxNodes == 4
\* Stack and Queue hold ints in 0..MaxInt.
MaxInt == 2
\* Width of Go's int in bits (32 or 64 in a build), scaled down so that every
\* int can be enumerated; arithmetic on ints wraps at this width.
IntBits == 6
\* Rounds of a loop over a Queue that the model follows (mode "iterate").
MaxRounds == 5
\* How many times the caller wraps a comparator in ReverseCompare (mode "compare").
MaxReverse == 2

Handles == 1..MaxGrown
NoItem == 0
Values == [Priority : 1..MaxPriority, Duration : 1..MaxDuration]
NoValue == [Priority |-> 0, Duration |-> 0]

\* --------------------------------------------------------------- variables
VARIABLES
    pq,       \* the PriorityQueue: its heap's items, the Items' fields, isMaxHeap, compare
    pq2,      \* a second queue, NewMinQueue(ReverseCompare(c)), driven in lock step (SpecEquiv)
    nextItem, \* the next handle NewItem allocates
    last,     \* the last call made by the caller and what it returned
    mode,     \* what the caller does and records in this behaviour (fixed by Init)
    prevPop,  \* the values of the latest two successful Pops (forgotten at the next
              \* Push), and whether the caller changed a queued value in between
    drain,    \* the values pushed into an empty queue and the values popped since
    stack,    \* the Stack: top, size, and the fields of its Nodes
    queue,    \* the Queue: front, rear, size, and the fields of its Nodes
    nextNode, \* the next Node address a Push of the Stack or Queue allocates
    hist,     \* what the caller of the Stack or Queue has pushed and popped so far
    calls,    \* how many Push, successful Pop and Remove calls since NewQueue or Clear
    slice,    \* the slice the caller's latest ToSlice returned, and what it listed then
    compared, \* a comparator the caller wrote, and what calling it returned (SpecCompare)
    run,      \* the priority queue call in progress, when calls run step by step (SpecSiftFair)
    iter,     \* a loop over the Queue: where it is, the values pushed, the values read (SpecIterateFair)
    twin      \* a structure constructed anew when the caller called Clear, and
              \* given every Push and Pop the cleared structure got since

vars == <<pq, pq2, mode, nextItem, last, prevPop, drain, stack, queue, nextNode, hist,
          calls, slice, twin, compared, run, iter>>

\* The variables of the priority queue's caller; those of the Stack's and Queue's.
pqVars == <<pq, pq2, nextItem, prevPop, drain, calls, slice>>

listVars == <<stack, queue, nextNode, hist>>

\* ------------------------------------------------------------- comparators
\* Go's int division truncates toward zero; TLA+'s \div floors.
GoDiv(a, b) == IF a >= 0 THEN a \div b ELSE 0 - ((0 - a) \div b)

\* Go's unary minus on int: the int that the low IntBits bits of 0 - x stand
\* for.
Neg(x) ==
    LET m == (0 - x) % 2^IntBits
    IN  IF m >= 2^(IntBits - 1) THEN m - 2^IntBits ELSE m

IntCompare(a, b) == IF a < b THEN -1 ELSE IF a > b THEN 1 ELSE 0

TaskByPriority(a, b) == IntCompare(a.Priority, b.Priority)

jobCompare(a, b) ==
    LET cmp == IntCompare(a.Priority, b.Priority)
    IN  IF cmp # 0 THEN cmp ELSE IntCompare(a.Duration, b.Duration)

\* A CompareFunc value: a named function under `neg` ReverseCompare wrappers.
\* fn "func" is a function the caller wrote, of which the model keeps ret,
\* the int it returns for the pair of values it is called with.
CompareFuncs == {"TaskByPriority", "jobCompare"}

\* Mutant of ReverseCompare: the result is not negated.
ReverseCompareSameSign(compare) == compare

ReverseCompare(compare) == [compare EXCEPT !.neg = @ + 1]

RECURSIVE Call(_, _, _)
Call(compare, a, b) ==
    IF compare.neg > 0
    THEN Neg(Call([compare EXCEPT !.neg = @ - 1], a, b))
    ELSE IF compare.fn = "TaskByPriority" THEN TaskByPriority(a, b)
         ELSE IF compare.fn = "jobCompare" THEN jobCompare(a, b)
         ELSE compare.ret

\* ------------------------------------------------- priorityHeap (heap.Interface)
At(h, i) == h.items[i + 1]

HLen(h) == Len(h.items)

InRange(h, i) == i >= 0 /\ i < HLen(h)

\* Mutants of Less: the orientation flag ignored; the operands exchanged.
LessIgnoresOrientation(h, i, j) ==
    Call(h.compare, h.Value[At(h, i)], h.Value[At(h, j)]) < 0

LessOperandsExchanged(h, i, j) ==
    LET cmp == Call(h.compare, h.Value[At(h, j)], h.Value[At(h, i)])
    IN  IF h.isMaxHeap THEN cmp > 0 ELSE cmp < 0

\* Mutant of Less: a tie counts as less.
LessOnTie(h, i, j) ==
    LET cmp == Call(h.compare, h.Value[At(h, i)], h.Value[At(h, j)])
    IN  IF h.isMaxHeap THEN cmp >= 0 ELSE cmp <= 0

Less(h, i, j) ==
    LET cmp == Call(h.compare, h.Value[At(h, i)], h.Value[At(h, j)])
    IN  IF h.isMaxHeap THEN cmp > 0 ELSE cmp < 0

\* Mutant of Swap: the two Index fields are not rewritten.
SwapKeepsIndex(h, i, j) ==
    [h EXCEPT !.items = [@ EXCEPT ![i + 1] = At(h, j), ![j + 1] = At(h, i)]]

Swap(h, i, j) ==
    LET a == At(h, i)
        b == At(h, j)
    IN  [h EXCEPT !.items = [@ EXCEPT ![i + 1] = b, ![j + 1] = a],
                  !.Index = [@ EXCEPT ![b] = i, ![a] = j]]

\* priorityHeap.Push: item.Index = len(h.items); append.
hPush(h, item) ==
    [h EXCEPT !.Index = [@ EXCEPT ![item] = HLen(h)],
              !.items = Append(@, item)]

\* priorityHeap.Pop: detach the last item, set its Index to -1, return it.
\* Mutant of hPop: item.Index is not set to -1.
hPopKeepsIndex(h) ==
    LET n == HLen(h)
    IN  [h |-> [h EXCEPT !.items = SubSeq(@, 1, n - 1)], item |-> At(h, n - 1)]

hPop(h) ==
    LET n == HLen(h)
        item == At(h, n - 1)
    IN  [h |-> [h EXCEPT !.Index = [@ EXCEPT ![item] = -1],
                         !.items = SubSeq(@, 1, n - 1)],
         item |-> item]

\* ------------------------------------------------------------ container/heap
RECURSIVE up(_, _)
up(h, j) ==
    LET i == GoDiv(j - 1, 2)
    IN  IF i = j \/ ~Less(h, j, i) THEN h ELSE up(Swap(h, i, j), i)

\* Mutant of downLoop: the right child is never considered.
RECURSIVE downLoopLeftOnly(_, _, _)
downLoopLeftOnly(h, i, n) ==
    LET j1 == 2 * i + 1
    IN  IF j1 >= n \/ j1 < 0 THEN [h |-> h, i |-> i]
        ELSE IF ~Less(h, j1, i) THEN [h |-> h, i |-> i]
        ELSE downLoopLeftOnly(Swap(h, i, j1), j1, n)

\* The loop of down: the heap and the position i it ends at.
RECURSIVE downLoop(_, _, _)
downLoop(h, i, n) ==
    LET j1 == 2 * i + 1
        j2 == j1 + 1
        j == IF j2 < n /\ Less(h, j2, j1) THEN j2 ELSE j1
    IN  IF j1 >= n \/ j1 < 0 THEN [h |-> h, i |-> i]
        ELSE IF ~Less(h, j, i) THEN [h |-> h, i |-> i]
        ELSE downLoop(Swap(h, i, j), j, n)

down(h, i0, n) ==
    LET r == downLoop(h, i0, n)
    IN  [h |-> r.h, moved |-> r.i > i0]

RECURSIVE heapInitFrom(_, _)
heapInitFrom(h, i) ==
    IF i < 0 THEN h ELSE heapInitFrom(down(h, i, HLen(h)).h, i - 1)

heapInit(h) == heapInitFrom(h, GoDiv(HLen(h), 2) - 1)

heapPush(h, item) ==
    LET h1 == hPush(h, item)
    IN  up(h1, HLen(h1) - 1)

\* Mutant of heapPop: the root is cut off and the rest shifts one position
\* forward, which keeps Items of equal priority in arrival order.
heapPopShift(h) ==
    LET item == At(h, 0)
    IN  [h |-> [h EXCEPT !.items = Tail(@),
                         !.Index = [x \in Handles |->
                                        IF x = item THEN -1
                                        ELSE IF @[x] > 0 THEN @[x] - 1 ELSE @[x]]],
         item |-> item]

heapPop(h) ==
    LET n == HLen(h) - 1
        h1 == Swap(h, 0, n)
        h2 == down(h1, 0, n).h
    IN  hPop(h2)

\* Mutant of heapRemove: up is not called when down did not move the element.
heapRemoveDownOnly(h, i) ==
    LET n == HLen(h) - 1
        h1 == Swap(h, i, n)
    IN  IF n # i THEN hPop(down(h1, i, n).h) ELSE hPop(h)

heapRemove(h, i) ==
    LET n == HLen(h) - 1
        h1 == Swap(h, i, n)
        d == down(h1, i, n)
        h2 == IF ~d.moved THEN up(d.h, i) ELSE d.h
    IN  IF n # i THEN hPop(h2) ELSE hPop(h)

heapFix(h, i) ==
    LET d == down(h, i, HLen(h))
    IN  IF ~d.moved THEN up(d.h, i) ELSE d.h


\* ------------------------------------------------------------ PriorityQueue
Zero == NoValue

\* The item handle is in the backing array.
Queued(q, item) == \E i \in 1..Len(q.items) : q.items[i] = item

\* No queue code reads the Value of an Item that has left the backing array
\* (Remove and UpdateItem read only its Index), so the model keeps the Value
\* of queued Items only.
Collect(q) ==
    [q EXCEPT !.Value = [x \in Handles |-> IF Queued(q, x) THEN @[x] ELSE NoValue]]

\* NewItem(value): a fresh Item holding value, Index at Go's zero value.
NewItem(q, item, value) ==
    [q EXCEPT !.Value = [@ EXCEPT ![item] = value],
              !.Index = [@ EXCEPT ![item] = 0]]

NewMinQueue(compare) ==
    heapInit([items |-> <<>>,
              Value |-> [x \in Handles |-> NoValue],
              Index |-> [x \in Handles |-> 0],
              compare |-> compare,
              isMaxHeap |-> FALSE])

NewMaxQueue(compare) ==
    heapInit([items |-> <<>>,
              Value |-> [x \in Handles |-> NoValue],
              Index |-> [x \in Handles |-> 0],
              compare |-> compare,
              isMaxHeap |-> TRUE])

IsEmpty(q) == HLen(q) = 0

Size(q) == HLen(q)

\* Mutant of Push: priorityHeap.Push is called instead of heap.Push (no sift-up).
PushNoSiftUp(q, item, value) == hPush(NewItem(q, item, value), item)

Push(q, item, value) == heapPush(NewItem(q, item, value), item)

\* Mutant of Pop: priorityHeap.Pop is called instead of heap.Pop.
PopLastItem(q) ==
    IF IsEmpty(q)
    THEN [q |-> q, item |-> NoItem, val |-> Zero, err |-> "empty"]
    ELSE LET r == hPop(q)
         IN  [q |-> Collect(r.h), item |-> r.item, val |-> r.h.Value[r.item],
              err |-> "nil"]

Pop(q) ==
    IF IsEmpty(q)
    THEN [q |-> q, item |-> NoItem, val |-> Zero, err |-> "empty"]
    ELSE LET r == heapPop(q)
         IN  [q |-> Collect(r.h), item |-> r.item, val |-> r.h.Value[r.item],
              err |-> "nil"]

\* Mutant of Peek: the last array element is read, not the first.
PeekLast(q) ==
    IF IsEmpty(q)
    THEN [q |-> q, val |-> Zero, err |-> "empty"]
    ELSE [q |-> q, val |-> q.Value[At(q, HLen(q) - 1)], err |-> "nil"]

Peek(q) ==
    IF IsEmpty(q)
    THEN [q |-> q, val |-> Zero, err |-> "empty"]
    ELSE [q |-> q, val |-> q.Value[At(q, 0)], err |-> "nil"]

\* heap.Fix(h, i) indexes h.items only in Less and Swap.  down breaks at once
\* when 2i+1 >= n or 2i+1 < 0, so for i outside the array the first access is
\* up's Less(i, parent), reached unless parent == i (i = -1, or i = 0).
FixPanics(h, i) == ~InRange(h, i) /\ GoDiv(i - 1, 2) # i

\* heap.Remove(h, i): n != i runs Swap(i, n), whose right-hand side reads
\* h.items[n] and h.items[i] before anything is written; n == i runs
\* priorityHeap.Pop, which reads old[n-1] first.
RemovePanics(h, i) ==
    LET n == HLen(h) - 1
    IN  IF n # i THEN ~InRange(h, i) \/ ~InRange(h, n) ELSE HLen(h) = 0

\* One round of the loop of heap.up at position j: the heap, the position
\* after it, and whether it swapped (FALSE: the loop breaks).
\* Mutant of upStep: the element is compared with its left neighbour.
upStepLinear(h, j) ==
    LET i == j - 1
    IN  IF j = 0 \/ ~Less(h, j, i)
        THEN [h |-> h, j |-> j, swapped |-> FALSE]
        ELSE [h |-> Swap(h, i, j), j |-> i, swapped |-> TRUE]

upStep(h, j) ==
    LET i == GoDiv(j - 1, 2)
    IN  IF i = j \/ ~Less(h, j, i)
        THEN [h |-> h, j |-> j, swapped |-> FALSE]
        ELSE [h |-> Swap(h, i, j), j |-> i, swapped |-> TRUE]

\* One round of the loop of heap.down at position i, over the first n
\* elements.
downStep(h, i, n) ==
    LET j1 == 2 * i + 1
        j2 == j1 + 1
        j == IF j2 < n /\ Less(h, j2, j1) THEN j2 ELSE j1
    IN  IF j1 >= n \/ j1 < 0 THEN [h |-> h, i |-> i, swapped |-> FALSE]
        ELSE IF ~Less(h, j, i) THEN [h |-> h, i |-> i, swapped |-> FALSE]
        ELSE [h |-> Swap(h, i, j), i |-> j, swapped |-> TRUE]

\* Mutants of UpdateItem: the item is only sifted up; only sifted down.
UpdateItemUpOnly(q, item) ==
    IF FixPanics(q, q.Index[item])
    THEN [q |-> q, err |-> "panic"]
    ELSE [q |-> up(q, q.Index[item]), err |-> "nil"]

UpdateItemDownOnly(q, item) ==
    IF FixPanics(q, q.Index[item])
    THEN [q |-> q, err |-> "panic"]
    ELSE [q |-> down(q, q.Index[item], HLen(q)).h, err |-> "nil"]

\* Mutant of Remove: the root is removed, whatever the item's Index.
RemoveRoot(q, item) ==
    IF RemovePanics(q, 0)
    THEN [q |-> q, err |-> "panic"]
    ELSE [q |-> Collect(heapRemove(q, 0).h), err |-> "nil"]

\* Mutant of Remove: a handle whose Index is -1 counts from the end of the
\* array, so the last Item is removed.
RemoveStaleAsLast(q, item) ==
    IF q.Index[item] = -1 /\ ~IsEmpty(q)
    THEN [q |-> Collect(hPop(q).h), err |-> "nil"]
    ELSE IF RemovePanics(q, q.Index[item])
    THEN [q |-> q, err |-> "panic"]
    ELSE [q |-> Collect(heapRemove(q, q.Index[item]).h), err |-> "nil"]

UpdateItem(q, item) ==
    IF FixPanics(q, q.Index[item])
    THEN [q |-> q, err |-> "panic"]
    ELSE [q |-> heapFix(q, q.Index[item]), err |-> "nil"]

Remove(q, item) ==
    IF RemovePanics(q, q.Index[item])
    THEN [q |-> q, err |-> "panic"]
    ELSE [q |-> Collect(heapRemove(q, q.Index[item]).h), err |-> "nil"]

\* A slice value: its length and its elements.  shared says that it has the
\* backing array of the heap's items rather than one of its own; then its
\* elements are read in that array, which holds the queue's current items
\* (nil beyond them).
NilSlice == [shared |-> FALSE, len |-> 0, items |-> <<>>]

make(n) == [shared |-> FALSE, len |-> n, items |-> [i \in 1..n |-> NoItem]]

copy(dst, src) ==
    [dst EXCEPT !.items = [i \in 1..dst.len |-> IF i <= Len(src) THEN src[i] ELSE @[i]]]

Listed(sl, q) ==
    IF sl.shared
    THEN [i \in 1..sl.len |-> IF i <= HLen(q) THEN q.items[i] ELSE NoItem]
    ELSE sl.items

\* Mutant of ToSlice: pq.heap.items itself is returned.
ToSliceNoCopy(q) ==
    [q |-> q, result |-> [shared |-> TRUE, len |-> HLen(q), items |-> <<>>]]

ToSlice(q) ==
    LET result == make(HLen(q))
    IN  [q |-> q, result |-> copy(result, q.items)]

\* Mutant of Clear: heap.Init is called on the items as they are.
ClearOnlyInit(q) == Collect(heapInit(q))

Clear(q) == Collect(heapInit([q EXCEPT !.items = SubSeq(@, 1, 0)]))

\* ------------------------------------------------------- linked-list nodes
\* Stack and Queue keep their values in singly linked Nodes.  A Node is an
\* address in Nodes; nil is no address.  Value and Next are the fields of
\* the allocated Nodes; a Node nothing refers to any more is collected (its
\* fields are forgotten).
nil == 0

ZeroInt == 0

Ints == 0..MaxInt

Nodes == 1..MaxNodes

NoNodes == [Value |-> [n \in Nodes |-> ZeroInt], Next |-> [n \in Nodes |-> nil]]

\* The Nodes met by following Next from node n, in order.  No chain of
\* distinct Nodes is longer than MaxNodes; a longer walk (a cycle) is cut.
RECURSIVE ChainFrom(_, _, _)
ChainFrom(next, n, fuel) ==
    IF n = nil \/ fuel = 0 THEN <<>>
    ELSE <<n>> \o ChainFrom(next, next[n], fuel - 1)

Chain(s, n) == ChainFrom(s.Next, n, MaxNodes + 1)

Reachable(s, n) == {Chain(s, n)[i] : i \in 1..Len(Chain(s, n))}

CollectNodes(s, roots) ==
    LET live == UNION {Reachable(s, r) : r \in roots}
    IN  [s EXCEPT !.Value = [n \in Nodes |-> IF n \in live THEN @[n] ELSE ZeroInt],
                  !.Next = [n \in Nodes |-> IF n \in live THEN @[n] ELSE nil]]

\* ------------------------------------------------------------------- Stack
NewStack == [top |-> nil, size |-> 0, Value |-> NoNodes.Value, Next |-> NoNodes.Next]

StackIsEmpty(s) == s.top = nil

StackSize(s) == s.size

\* Mutant of StackPush: the new Node is linked below the old top.
StackPushBelowTop(s, newNode, value) ==
    IF s.top = nil
    THEN [s EXCEPT !.Value[newNode] = value, !.Next[newNode] = nil,
                   !.top = newNode, !.size = @ + 1]
    ELSE [s EXCEPT !.Value[newNode] = value, !.Next[newNode] = s.Next[s.top],
                   !.Next[s.top] = newNode, !.size = @ + 1]

StackPush(s, newNode, value) ==
    [s EXCEPT !.Value[newNode] = value, !.Next[newNode] = s.top,
              !.top = newNode, !.size = @ + 1]

\* Mutant of StackPop: size is decremented before the emptiness test.
StackPopCountsFirst(s) ==
    IF StackIsEmpty(s)
    THEN [s |-> [s EXCEPT !.size = @ - 1], val |-> ZeroInt, err |-> "empty"]
    ELSE LET s1 == [s EXCEPT !.top = s.Next[s.top], !.size = @ - 1]
         IN  [s |-> CollectNodes(s1, {s1.top}), val |-> s.Value[s.top],
              err |-> "nil"]

\* Mutant of StackPop: the top Node is not unlinked.
StackPopKeepsTop(s) ==
    IF StackIsEmpty(s)
    THEN [s |-> s, val |-> ZeroInt, err |-> "empty"]
    ELSE [s |-> [s EXCEPT !.size = @ - 1], val |-> s.Value[s.top], err |-> "nil"]

StackPop(s) ==
    IF StackIsEmpty(s)
    THEN [s |-> s, val |-> ZeroInt, err |-> "empty"]
    ELSE LET s1 == [s EXCEPT !.top = s.Next[s.top], !.size = @ - 1]
         IN  [s |-> CollectNodes(s1, {s1.top}), val |-> s.Value[s.top],
              err |-> "nil"]

\* Mutant of StackPeek: the top Node is unlinked as in Pop.
StackPeekPops(s) == StackPop(s)

StackPeek(s) ==
    IF StackIsEmpty(s)
    THEN [s |-> s, val |-> ZeroInt, err |-> "empty"]
    ELSE [s |-> s, val |-> s.Value[s.top], err |-> "nil"]

\* Mutant of StackClear: size is not reset.
StackClearKeepsSize(s) ==
    LET s1 == [s EXCEPT !.top = nil]
    IN  CollectNodes(s1, {s1.top})

StackClear(s) ==
    LET s1 == [s EXCEPT !.top = nil, !.size = 0]
    IN  CollectNodes(s1, {s1.top})

\* ------------------------------------------------------------------- Queue
NewQueue ==
    [front |-> nil, rear |-> nil, size |-> 0,
     Value |-> NoNodes.Value, Next |-> NoNodes.Next]

QueueIsEmpty(q) == q.front = nil

QueueSize(q) == q.size

\* Mutant of QueuePush: the new Node is linked in at the front.
QueuePushAtFront(q, newNode, value) ==
    LET q1 == [q EXCEPT !.Value[newNode] = value, !.Next[newNode] = q.front]
    IN  IF QueueIsEmpty(q)
        THEN [q1 EXCEPT !.front = newNode, !.rear = newNode, !.size = @ + 1]
        ELSE [q1 EXCEPT !.front = newNode, !.size = @ + 1]

QueuePush(q, newNode, value) ==
    LET q1 == [q EXCEPT !.Value[newNode] = value, !.Next[newNode] = nil]
    IN  IF QueueIsEmpty(q)
        THEN [q1 EXCEPT !.front = newNode, !.rear = newNode, !.size = @ + 1]
        ELSE [q1 EXCEPT !.Next[q.rear] = newNode, !.rear = newNode,
                        !.size = @ + 1]

\* Mutant of QueuePop: rear is left alone when the last Node is popped.
QueuePopKeepsRear(q) ==
    IF QueueIsEmpty(q)
    THEN [q |-> q, val |-> ZeroInt, err |-> "empty"]
    ELSE LET q1 == [q EXCEPT !.front = q.Next[q.front], !.size = @ - 1]
         IN  [q |-> CollectNodes(q1, {q1.front, q1.rear}),
              val |-> q.Value[q.front], err |-> "nil"]

QueuePop(q) ==
    IF QueueIsEmpty(q)
    THEN [q |-> q, val |-> ZeroInt, err |-> "empty"]
    ELSE LET q1 == [q EXCEPT !.front = q.Next[q.front]]
             q2 == IF q1.front = nil THEN [q1 EXCEPT !.rear = nil] ELSE q1
             q3 == [q2 EXCEPT !.size = @ - 1]
         IN  [q |-> CollectNodes(q3, {q3.front, q3.rear}),
              val |-> q.Value[q.front], err |-> "nil"]

QueueFront(q) ==
    IF QueueIsEmpty(q)
    THEN [q |-> q, val |-> ZeroInt, err |-> "empty"]
    ELSE [q |-> q, val |-> q.Value[q.front], err |-> "nil"]

\* Mutant of QueueRear: the front Node is read.
QueueRearReadsFront(q) ==
    IF QueueIsEmpty(q)
    THEN [q |-> q, val |-> ZeroInt, err |-> "empty"]
    ELSE [q |-> q, val |-> q.Value[q.front], err |-> "nil"]

QueueRear(q) ==
    IF QueueIsEmpty(q)
    THEN [q |-> q, val |-> ZeroInt, err |-> "empty"]
    ELSE [q |-> q, val |-> q.Value[q.rear], err |-> "nil"]

\* Mutant of QueueClear: size is not reset.
QueueClearKeepsSize(q) ==
    LET q1 == [q EXCEPT !.front = nil, !.rear = nil]
    IN  CollectNodes(q1, {q1.front, q1.rear})

QueueClear(q) ==
    LET q1 == [q EXCEPT !.front = nil, !.rear = nil, !.size = 0]
    IN  CollectNodes(q1, {q1.front, q1.rear})

RECURSIVE ToSliceFrom(_, _, _)
ToSliceFrom(q, current, result) ==
    IF current = nil THEN result
    ELSE ToSliceFrom(q, q.Next[current], Append(result, q.Value[current]))

\* Mutant of QueueToSlice: the walk starts at front.Next.
QueueToSliceSkipsFront(q) ==
    [q |-> q,
     result |-> ToSliceFrom(q, IF q.front = nil THEN nil ELSE q.Next[q.front], <<>>)]

QueueToSlice(q) == [q |-> q, result |-> ToSliceFrom(q, q.front, <<>>)]

\* ---------------------------------------------------------------- the caller
\* The caller keeps to the contract: Remove and UpdateItem get the handle of a
\* queued Item, and a value written through a handle is followed at once by
\* UpdateItem.  mode says what else happens in a behaviour:
\*   "contract"  one queue, any operation                          (Spec)
\*   "order"     the same, and the caller remembers its Pops       (SpecOrder)
\*   "drain"     pushes into an empty queue, then pops             (SpecDrain)
\*   "mirror"    pq2 gets every call pq gets                       (SpecEquiv)

\* What the caller records of its last call: the operation and its error.
\* In mode "order" it records the values its Pops return instead, in mode
\* "count" the number of its calls, in mode "slice" what ToSlice returned.
Called(op, err) ==
    IF mode \in {"order", "count", "slice"} THEN last ELSE [op |-> op, err |-> err]

DrainStart == [phase |-> "push", in |-> <<>>, out |-> <<>>]

NoPop == [prev |-> <<>>, cur |-> <<>>, changed |-> FALSE, pending |-> FALSE]

Mirror(q2) == IF mode = "mirror" THEN q2 ELSE pq2

\* How many Items the caller pushes in one behaviour.
PushLimit == IF mode = "grow" THEN MaxGrown ELSE MaxItems

\* In mode "count" the caller counts its Push calls, its successful Pop calls
\* and its Remove calls on queued items, and starts over at Clear.
NoCalls == [Push |-> 0, Pop |-> 0, Remove |-> 0]

Counted(op, err) ==
    IF mode # "count" THEN calls
    ELSE IF op = "Clear" THEN NoCalls
    ELSE IF op \in {"Push", "Pop", "Remove"} /\ err = "nil"
         THEN [calls EXCEPT ![op] = @ + 1]
    ELSE calls

\* In mode "clear" the caller constructs a new priority queue like pq when it
\* calls Clear, and from then on makes every Push and Pop on both.  The
\* caller of a Stack or Queue does the same.
NoTwin == [made |-> FALSE, of |-> <<>>]

\* A new priority queue with the comparator and orientation of q.
NewLike(q) == IF q.isMaxHeap THEN NewMaxQueue(q.compare) ELSE NewMinQueue(q.compare)

Twin(m, new) == IF mode = m /\ twin.made THEN [twin EXCEPT !.of = new] ELSE twin

\* In mode "slice" the caller keeps the slice its latest ToSlice returned,
\* and the handles it read in it when ToSlice returned.
NoSlice == [held |-> FALSE, result |-> NilSlice, taken |-> <<>>]

\* The caller of a Stack or Queue remembers, until its first Clear: the values
\* it pushed, in order; how many Pops succeeded; which Nodes (numbered in
\* allocation order, so Node k holds the k-th Push) were not popped yet; and
\* whether it pushed again after a successful Pop.
NoHist == [pushed |-> <<>>, pops |-> 0, live |-> {}, mixed |-> FALSE, cleared |-> FALSE]

Forgotten == [NoHist EXCEPT !.cleared = TRUE]

Record(h) == IF hist.cleared THEN hist ELSE h

\* In mode "compare" the caller writes a comparator, wraps it in
\* ReverseCompare and calls both; compared holds the comparator c and what the
\* last call of c and of ReverseCompare(c) returned.
NoCompare ==
    [c |-> [fn |-> "none", neg |-> 0, ret |-> 0], called |-> FALSE, got |-> 0, reversed |-> 0]

\* In mode "sift" a call runs step by step: a step is one round of the loop
\* of heap.up or of heap.down, or the closing priorityHeap.Pop.  run holds
\* the call, where it is (pc), the position i of the element being sifted,
\* the position i0 it started from, the bound n of down, the number of Swap
\* calls so far, and the queue the call is to return with.
Idle == [op |-> "idle", pc |-> "none", i |-> 0, i0 |-> 0, n |-> 0, swaps |-> 0,
         expect |-> <<>>]

InitWith(q, q2, m) ==
    /\ pq = q
    /\ pq2 = q2
    /\ mode = m
    /\ nextItem = 1
    /\ last = [op |-> "New", err |-> "nil"]
    /\ prevPop = NoPop
    /\ drain = DrainStart
    /\ stack = NewStack
    /\ queue = NewQueue
    /\ nextNode = 1
    /\ hist = NoHist
    /\ calls = NoCalls
    /\ slice = NoSlice
    /\ twin = NoTwin
    /\ compared = NoCompare
    /\ run = Idle
    /\ iter = [pc |-> "push", pushed |-> <<>>, seen |-> <<>>]

InitQueue(m) ==
    \E fn \in CompareFuncs, isMax \in BOOLEAN :
        LET c == [fn |-> fn, neg |-> 0]
        IN  InitWith(IF isMax THEN NewMaxQueue(c) ELSE NewMinQueue(c),
                     NewMinQueue(ReverseCompare(c)), m)

Init == InitQueue("contract")

InitOrder == InitQueue("order")

InitDrain == InitQueue("drain")

InitEquiv ==
    \E fn \in CompareFuncs :
        LET c == [fn |-> fn, neg |-> 0]
        IN  InitWith(NewMaxQueue(c), NewMinQueue(ReverseCompare(c)), "mirror")

DoPush(v) ==
    /\ nextItem <= PushLimit
    /\ mode = "drain" => drain.phase = "push" \/ IsEmpty(pq)
    /\ pq' = Push(pq, nextItem, v)
    /\ pq2' = Mirror(Push(pq2, nextItem, v))
    /\ nextItem' = nextItem + 1
    /\ last' = Called("Push", "nil")
    /\ prevPop' = NoPop
    /\ drain' = IF mode # "drain" THEN drain
                ELSE IF IsEmpty(pq) THEN [DrainStart EXCEPT !.in = <<v>>]
                ELSE [drain EXCEPT !.in = Append(@, v)]
    /\ UNCHANGED mode
    /\ calls' = Counted("Push", "nil")
    /\ UNCHANGED <<slice, listVars>>
    /\ twin' = Twin("clear", Push(twin.of, nextItem, v))
    /\ UNCHANGED <<compared, run, iter>>

DoPop ==
    LET r == Pop(pq)
    IN  /\ pq' = r.q
        /\ pq2' = Mirror(Pop(pq2).q)
        /\ last' = Called("Pop", r.err)
        /\ prevPop' = IF mode = "order" /\ r.err = "nil"
                      THEN [prev |-> prevPop.cur, cur |-> <<r.val>>,
                            changed |-> prevPop.pending, pending |-> FALSE]
                      ELSE prevPop
        /\ drain' = IF mode = "drain" /\ r.err = "nil"
                    THEN [drain EXCEPT !.phase = "pop", !.out = Append(@, r.val)]
                    ELSE drain
        /\ UNCHANGED <<nextItem, mode>>
        /\ calls' = Counted("Pop", r.err)
        /\ UNCHANGED <<slice, listVars>>
        /\ twin' = Twin("clear", Pop(twin.of).q)
        /\ UNCHANGED <<compared, run, iter>>

DoPeek ==
    LET r == Peek(pq)
    IN  /\ pq' = r.q
        /\ pq2' = Mirror(Peek(pq2).q)
        /\ last' = Called("Peek", r.err)
        /\ UNCHANGED <<nextItem, mode, prevPop, drain>>
        /\ calls' = Counted("Peek", r.err)
        /\ UNCHANGED <<slice, listVars>>
        /\ UNCHANGED <<twin, compared, run, iter>>

\* The caller writes v to item.Value through the handle of a queued Item
\* (v = NoValue: it writes nothing) and calls UpdateItem(item) right after.
SetValue(q, item, v) ==
    IF v = NoValue THEN q ELSE [q EXCEPT !.Value = [@ EXCEPT ![item] = v]]

DoUpdateItem(item, v) ==
    LET r == UpdateItem(SetValue(pq, item, v), item)
    IN  /\ Queued(pq, item)
        /\ v # pq.Value[item]
        /\ pq' = r.q
        /\ pq2' = Mirror(UpdateItem(SetValue(pq2, item, v), item).q)
        /\ last' = Called("UpdateItem", r.err)
        /\ prevPop' = IF mode = "order" /\ v # NoValue /\ prevPop.cur # <<>>
                      THEN [prevPop EXCEPT !.pending = TRUE]
                      ELSE prevPop
        /\ UNCHANGED <<nextItem, mode, drain>>
        /\ calls' = Counted("UpdateItem", r.err)
        /\ UNCHANGED <<slice, listVars>>
        /\ UNCHANGED <<twin, compared, run, iter>>

DoRemove(item) ==
    LET r == Remove(pq, item)
    IN  /\ Queued(pq, item)
        /\ pq' = r.q
        /\ pq2' = Mirror(Remove(pq2, item).q)
        /\ last' = Called("Remove", r.err)
        /\ UNCHANGED <<nextItem, mode, prevPop, drain>>
        /\ calls' = Counted("Remove", r.err)
        /\ UNCHANGED <<slice, listVars>>
        /\ UNCHANGED <<twin, compared, run, iter>>

DoClear ==
    /\ pq' = Clear(pq)
    /\ pq2' = Mirror(Clear(pq2))
    /\ last' = Called("Clear", "nil")
    /\ drain' = IF mode = "drain" THEN DrainStart ELSE drain
    /\ UNCHANGED <<nextItem, mode, prevPop>>
    /\ calls' = Counted("Clear", "nil")
    /\ UNCHANGED <<slice, listVars>>
    /\ twin' = IF mode = "clear" THEN [made |-> TRUE, of |-> NewLike(pq)] ELSE twin
    /\ UNCHANGED <<compared, run, iter>>

Next ==
    \/ \E v \in Values : DoPush(v)
    \/ DoPop
    \/ DoPeek
    \/ \E item \in Handles, v \in Values \cup {NoValue} : DoUpdateItem(item, v)
    \/ \E item \in Handles : DoRemove(item)
    \/ DoClear

DoToSlice ==
    LET r == ToSlice(pq)
    IN  /\ mode \in {"count", "slice"}
        /\ pq' = r.q
        /\ last' = Called("ToSlice", "nil")
        /\ slice' = IF mode = "slice"
                    THEN [held |-> TRUE, result |-> r.result,
                          taken |-> Listed(r.result, r.q)]
                    ELSE slice
        /\ UNCHANGED <<pq2, nextItem, mode, prevPop, drain, calls, listVars>>
        /\ UNCHANGED <<twin, compared, run, iter>>

NextCount ==
    \/ Next
    \/ DoToSlice

NextSlice ==
    \/ \E v \in Values : DoPush(v)
    \/ DoPop
    \/ \E item \in Handles : DoRemove(item)
    \/ DoToSlice

InitCount == InitQueue("count")

\*   "grow"      up to MaxGrown pushes, then pops and removes      (SpecGrow)
InitGrow == InitQueue("grow")

NextGrow ==
    \/ Size(pq) = nextItem - 1 /\ \E v \in Values : DoPush(v)
    \/ DoPop
    \/ \E item \in Handles : DoRemove(item)

InitSlice == InitQueue("slice")

\*   "handles"   Remove is also called with handles that left the queue,
\*               UpdateItem also without a value written      (SpecHandles)
\* Remove called with any handle the caller was given, queued or not; a
\* panic is recovered by the caller and recorded.
DoRemoveHeld(item) ==
    LET r == Remove(pq, item)
    IN  /\ item < nextItem
        /\ pq' = r.q
        /\ pq2' = Mirror(Remove(pq2, item).q)
        /\ last' = Called("Remove", r.err)
        /\ UNCHANGED <<nextItem, mode, prevPop, drain>>
        /\ calls' = Counted("Remove", r.err)
        /\ UNCHANGED <<slice, listVars>>
        /\ UNCHANGED <<twin, compared, run, iter>>

\* UpdateItem called for a queued Item whose Value was not written.
DoUpdateItemUnwritten(item) ==
    LET r == UpdateItem(pq, item)
    IN  /\ Queued(pq, item)
        /\ pq' = r.q
        /\ pq2' = Mirror(UpdateItem(pq2, item).q)
        /\ last' = Called("UpdateItem", r.err)
        /\ UNCHANGED <<nextItem, mode, prevPop, drain, calls>>
        /\ UNCHANGED <<slice, listVars>>
        /\ UNCHANGED <<twin, compared, run, iter>>

NextHandles ==
    \/ \E v \in Values : DoPush(v)
    \/ DoPop
    \/ \E item \in Handles : DoRemoveHeld(item)
    \/ \E item \in Handles : DoUpdateItemUnwritten(item)

NextDrain ==
    \/ \E v \in Values : DoPush(v)
    \/ DoPop
    \/ DoClear

Spec == Init /\ [][Next]_vars

SpecOrder == InitOrder /\ [][Next]_vars

SpecDrain == InitDrain /\ [][NextDrain]_vars

SpecEquiv == InitEquiv /\ [][Next]_vars

SpecCount == InitCount /\ [][NextCount]_vars

SpecGrow == InitGrow /\ [][NextGrow]_vars

SpecHandles == InitQueue("handles") /\ [][NextHandles]_vars

\*   "sift"      calls run step by step                             (SpecSiftFair)
\* heap.Push: priorityHeap.Push, then up from the last position.
CallPush(v) ==
    /\ mode = "sift" /\ run.op = "idle"
    /\ nextItem <= PushLimit
    /\ pq' = hPush(NewItem(pq, nextItem, v), nextItem)
    /\ nextItem' = nextItem + 1
    /\ run' = [op |-> "Push", pc |-> "up", i |-> HLen(pq), i0 |-> HLen(pq), n |-> 0,
               swaps |-> 0, expect |-> Push(pq, nextItem, v)]
    /\ UNCHANGED <<pq2, mode, last, prevPop, drain, calls, slice>>
    /\ UNCHANGED <<listVars, twin, compared, iter>>

\* heap.Pop: Swap(0, n), then down from the root over the first n elements.
CallPop ==
    /\ mode = "sift" /\ run.op = "idle"
    /\ ~IsEmpty(pq)
    /\ pq' = Swap(pq, 0, HLen(pq) - 1)
    /\ run' = [op |-> "Pop", pc |-> "down", i |-> 0, i0 |-> 0, n |-> HLen(pq) - 1,
               swaps |-> 1, expect |-> Pop(pq).q]
    /\ UNCHANGED <<nextItem, pq2, mode, last, prevPop, drain, calls, slice>>
    /\ UNCHANGED <<listVars, twin, compared, iter>>

\* The caller writes item.Value, then heap.Fix: down from the Item's position.
CallUpdateItem(item, v) ==
    /\ mode = "sift" /\ run.op = "idle"
    /\ Queued(pq, item)
    /\ v # pq.Value[item]
    /\ pq' = SetValue(pq, item, v)
    /\ run' = [op |-> "UpdateItem", pc |-> "down", i |-> pq.Index[item],
               i0 |-> pq.Index[item], n |-> HLen(pq), swaps |-> 0,
               expect |-> UpdateItem(SetValue(pq, item, v), item).q]
    /\ UNCHANGED <<nextItem, pq2, mode, last, prevPop, drain, calls, slice>>
    /\ UNCHANGED <<listVars, twin, compared, iter>>

\* heap.Remove: for an Item that is not the last, Swap(i, n), then down from i
\* over the first n elements; for the last one, priorityHeap.Pop at once.
CallRemove(item) ==
    LET i == pq.Index[item]
        n == HLen(pq) - 1
    IN  /\ mode = "sift" /\ run.op = "idle"
        /\ Queued(pq, item)
        /\ pq' = IF n # i THEN Swap(pq, i, n) ELSE pq
        /\ run' = [op |-> "Remove", pc |-> IF n # i THEN "down" ELSE "pop",
                   i |-> i, i0 |-> i, n |-> n, swaps |-> IF n # i THEN 1 ELSE 0,
                   expect |-> Remove(pq, item).q]
        /\ UNCHANGED <<nextItem, pq2, mode, last, prevPop, drain, calls, slice>>
        /\ UNCHANGED <<listVars, twin, compared, iter>>

\* One round of heap.up; when it breaks, heap.Remove goes on to
\* priorityHeap.Pop and the other calls return.
StepUp ==
    LET r == upStep(pq, run.i)
    IN  /\ run.pc = "up"
        /\ pq' = r.h
        /\ run' = IF r.swapped THEN [run EXCEPT !.i = r.j, !.swaps = @ + 1]
                  ELSE IF run.op = "Remove" THEN [run EXCEPT !.pc = "pop"]
                  ELSE Idle
        /\ UNCHANGED <<nextItem, pq2, mode, last, prevPop, drain, calls, slice>>
        /\ UNCHANGED <<listVars, twin, compared, iter>>

\* One round of heap.down; when it breaks, heap.Pop goes on to
\* priorityHeap.Pop, heap.Fix and heap.Remove go on to up if down did not move
\* the element, and otherwise Fix returns and Remove goes on to
\* priorityHeap.Pop.
StepDown ==
    LET r == downStep(pq, run.i, run.n)
    IN  /\ run.pc = "down"
        /\ pq' = r.h
        /\ run' = IF r.swapped THEN [run EXCEPT !.i = r.i, !.swaps = @ + 1]
                  ELSE IF run.op = "Pop" THEN [run EXCEPT !.pc = "pop"]
                  ELSE IF run.i = run.i0 THEN [run EXCEPT !.pc = "up"]
                  ELSE IF run.op = "Remove" THEN [run EXCEPT !.pc = "pop"]
                  ELSE Idle
        /\ UNCHANGED <<nextItem, pq2, mode, last, prevPop, drain, calls, slice>>
        /\ UNCHANGED <<listVars, twin, compared, iter>>

\* priorityHeap.Pop, the last statement of heap.Pop and of heap.Remove.
StepPop ==
    /\ run.pc = "pop"
    /\ pq' = Collect(hPop(pq).h)
    /\ run' = Idle
    /\ UNCHANGED <<nextItem, pq2, mode, last, prevPop, drain, calls, slice>>
    /\ UNCHANGED <<listVars, twin, compared, iter>>

NextSift ==
    \/ \E v \in Values : CallPush(v)
    \/ CallPop
    \/ \E item \in Handles, v \in Values : CallUpdateItem(item, v)
    \/ \E item \in Handles : CallRemove(item)
    \/ StepUp
    \/ StepDown
    \/ StepPop

\* The queue is a NewMinQueue (a max-queue takes the same steps on the
\* mirrored values); a call that has started is not suspended for ever.
SpecSiftFair ==
    /\ \E fn \in CompareFuncs :
          LET c == [fn |-> fn, neg |-> 0]
          IN  InitWith(NewMinQueue(c), NewMinQueue(ReverseCompare(c)), "sift")
    /\ [][NextSift]_vars
    /\ WF_vars(StepUp \/ StepDown \/ StepPop)

\*   "compare"   comparators are written, reversed and called      (SpecCompare)
\* The caller writes a CompareFunc that returns the int x for the pair it
\* compares.
DoFuncLiteral(x) ==
    /\ mode = "compare"
    /\ compared.c.fn = "none"
    /\ compared' = [NoCompare EXCEPT !.c = [fn |-> "func", neg |-> 0, ret |-> x]]
    /\ UNCHANGED <<pqVars, listVars, mode, last, twin, run, iter>>

\* c = ReverseCompare(c)
DoReverseCompare ==
    /\ mode = "compare"
    /\ compared.c.fn = "func"
    /\ compared.c.neg < MaxReverse
    /\ compared' = [NoCompare EXCEPT !.c = ReverseCompare(compared.c)]
    /\ UNCHANGED <<pqVars, listVars, mode, last, twin, run, iter>>

\* c(a, b) and ReverseCompare(c)(a, b) are called.
DoCompare ==
    /\ mode = "compare"
    /\ compared.c.fn = "func"
    /\ compared' = [compared EXCEPT !.called = TRUE,
                          !.got = Call(compared.c, NoValue, NoValue),
                          !.reversed = Call(ReverseCompare(compared.c), NoValue, NoValue)]
    /\ UNCHANGED <<pqVars, listVars, mode, last, twin, run, iter>>

NextCompare ==
    \/ \E x \in (0 - 2^(IntBits - 1))..(2^(IntBits - 1) - 1) : DoFuncLiteral(x)
    \/ DoReverseCompare
    \/ DoCompare

SpecCompare == InitQueue("compare") /\ [][NextCompare]_vars

SpecSlice == InitSlice /\ [][NextSlice]_vars

\* ------------------------------------------------- the Stack's and Queue's caller
\*   "stack"     one Stack: Push, Pop, Peek, Clear                 (SpecStack)
\*   "queue"     one Queue: Push, Pop, Front, Rear, ToSlice, Clear (SpecQueue)
InitList(m) ==
    LET c == [fn |-> "TaskByPriority", neg |-> 0]
    IN  InitWith(NewMinQueue(c), NewMinQueue(ReverseCompare(c)), m)

InitStack == InitList("stack")

InitFifo == InitList("queue")

DoStackPush(v) ==
    /\ mode = "stack"
    /\ nextNode <= MaxNodes
    /\ stack' = StackPush(stack, nextNode, v)
    /\ nextNode' = nextNode + 1
    /\ hist' = Record([hist EXCEPT !.pushed = Append(@, v),
                                   !.live = @ \cup {nextNode},
                                   !.mixed = @ \/ hist.pops > 0])
    /\ last' = [op |-> "Push", err |-> "nil"]
    /\ UNCHANGED <<queue, mode, pqVars>>
    /\ twin' = Twin("stack", StackPush(twin.of, nextNode, v))
    /\ UNCHANGED <<compared, run, iter>>

DoStackPop ==
    LET r == StackPop(stack)
    IN  /\ mode = "stack"
        /\ stack' = r.s
        /\ hist' = IF r.err = "nil"
                   THEN Record([hist EXCEPT !.pops = @ + 1, !.live = @ \ {stack.top}])
                   ELSE hist
        /\ last' = [op |-> "Pop", err |-> r.err]
        /\ UNCHANGED <<queue, nextNode, mode, pqVars>>
        /\ twin' = Twin("stack", StackPop(twin.of).s)
        /\ UNCHANGED <<compared, run, iter>>

DoStackPeek ==
    LET r == StackPeek(stack)
    IN  /\ mode = "stack"
        /\ stack' = r.s
        /\ last' = [op |-> "Peek", err |-> r.err]
        /\ UNCHANGED <<queue, nextNode, hist, mode, pqVars>>
        /\ UNCHANGED <<twin, compared, run, iter>>

DoStackClear ==
    /\ mode = "stack"
    /\ stack' = StackClear(stack)
    /\ hist' = Forgotten
    /\ last' = [op |-> "Clear", err |-> "nil"]
    /\ UNCHANGED <<queue, nextNode, mode, pqVars>>
    /\ twin' = [made |-> TRUE, of |-> NewStack]
    /\ UNCHANGED <<compared, run, iter>>

DoQueuePush(v) ==
    /\ mode = "queue"
    /\ nextNode <= MaxNodes
    /\ queue' = QueuePush(queue, nextNode, v)
    /\ nextNode' = nextNode + 1
    /\ hist' = Record([hist EXCEPT !.pushed = Append(@, v),
                                   !.live = @ \cup {nextNode},
                                   !.mixed = @ \/ hist.pops > 0])
    /\ last' = [op |-> "Push", err |-> "nil"]
    /\ UNCHANGED <<stack, mode, pqVars>>
    /\ twin' = Twin("queue", QueuePush(twin.of, nextNode, v))
    /\ UNCHANGED <<compared, run, iter>>

DoQueuePop ==
    LET r == QueuePop(queue)
    IN  /\ mode = "queue"
        /\ queue' = r.q
        /\ hist' = IF r.err = "nil"
                   THEN Record([hist EXCEPT !.pops = @ + 1, !.live = @ \ {queue.front}])
                   ELSE hist
        /\ last' = [op |-> "Pop", err |-> r.err]
        /\ UNCHANGED <<stack, nextNode, mode, pqVars>>
        /\ twin' = Twin("queue", QueuePop(twin.of).q)
        /\ UNCHANGED <<compared, run, iter>>

DoQueueFront ==
    LET r == QueueFront(queue)
    IN  /\ mode = "queue"
        /\ queue' = r.q
        /\ last' = [op |-> "Front", err |-> r.err]
        /\ UNCHANGED <<stack, nextNode, hist, mode, pqVars>>
        /\ UNCHANGED <<twin, compared, run, iter>>

DoQueueRear ==
    LET r == QueueRear(queue)
    IN  /\ mode = "queue"
        /\ queue' = r.q
        /\ last' = [op |-> "Rear", err |-> r.err]
        /\ UNCHANGED <<stack, nextNode, hist, mode, pqVars>>
        /\ UNCHANGED <<twin, compared, run, iter>>

DoQueueToSlice ==
    LET r == QueueToSlice(queue)
    IN  /\ mode = "queue"
        /\ queue' = r.q
        /\ last' = [op |-> "ToSlice", err |-> "nil"]
        /\ UNCHANGED <<stack, nextNode, hist, mode, pqVars>>
        /\ UNCHANGED <<twin, compared, run, iter>>

DoQueueClear ==
    /\ mode = "queue"
    /\ queue' = QueueClear(queue)
    /\ hist' = Forgotten
    /\ last' = [op |-> "Clear", err |-> "nil"]
    /\ UNCHANGED <<stack, nextNode, mode, pqVars>>
    /\ twin' = [made |-> TRUE, of |-> NewQueue]
    /\ UNCHANGED <<compared, run, iter>>

NextStack ==
    \/ \E v \in Ints : DoStackPush(v)
    \/ DoStackPop
    \/ DoStackPeek
    \/ DoStackClear

NextQueue ==
    \/ \E v \in Ints : DoQueuePush(v)
    \/ DoQueuePop
    \/ DoQueueFront
    \/ DoQueueRear
    \/ DoQueueToSlice
    \/ DoQueueClear

SpecStack == InitStack /\ [][NextStack]_vars

SpecQueue == InitFifo /\ [][NextQueue]_vars

\* One behaviour per structure: a priority queue, a Stack or a Queue.
\*   "iterate"   values are pushed into a Queue, then a loop reads its front
\*               while it is not empty                          (SpecIterateFair)
\* q.Push(v), before the loop.
IterPush(v) ==
    /\ mode = "iterate" /\ iter.pc = "push"
    /\ nextNode <= MaxNodes
    /\ queue' = QueuePush(queue, nextNode, v)
    /\ nextNode' = nextNode + 1
    /\ iter' = [iter EXCEPT !.pushed = Append(@, v)]
    /\ UNCHANGED <<pqVars, mode, last, twin, compared, run, stack, hist>>

\* The for statement is reached, after the pushes or from the end of its
\* body, and !q.IsEmpty() holds: the body reads q.front.
IterRound ==
    /\ mode = "iterate" /\ iter.pc \in {"push", "loop"}
    /\ ~QueueIsEmpty(queue)
    /\ Len(iter.seen) < MaxRounds
    /\ iter' = [iter EXCEPT !.pc = "loop",
                            !.seen = Append(@, queue.Value[queue.front])]
    /\ UNCHANGED <<queue, nextNode, pqVars, mode, last, twin, compared, run, stack, hist>>

\* The for statement is reached and !q.IsEmpty() fails: the loop ends.
IterExit ==
    /\ mode = "iterate" /\ iter.pc \in {"push", "loop"}
    /\ QueueIsEmpty(queue)
    /\ iter' = [iter EXCEPT !.pc = "done"]
    /\ UNCHANGED <<queue, nextNode, pqVars, mode, last, twin, compared, run, stack, hist>>

NextIterate ==
    \/ \E v \in Ints : IterPush(v)
    \/ IterRound
    \/ IterExit

\* The loop, once reached, keeps running.
SpecIterateFair ==
    /\ InitList("iterate")
    /\ [][NextIterate]_vars
    /\ WF_vars(IterRound \/ IterExit)

InitAll == Init \/ InitStack \/ InitFifo

NextAll ==
    \/ mode = "contract" /\ Next
    \/ NextStack
    \/ NextQueue

SpecAll == InitAll /\ [][NextAll]_vars

\* The same with the twin of the priority queue: once it is made, the caller
\* only pushes, pops and clears.
InitClear == InitQueue("clear") \/ InitStack \/ InitFifo

NextClear ==
    \/ mode = "clear" /\ \E v \in Values : DoPush(v)
    \/ mode = "clear" /\ DoPop
    \/ mode = "clear" /\ DoClear
    \/ mode = "clear" /\ ~twin.made /\ DoPeek
    \/ mode = "clear" /\ ~twin.made
          /\ \E item \in Handles, v \in Values \cup {NoValue} : DoUpdateItem(item, v)
    \/ mode = "clear" /\ ~twin.made /\ \E item \in Handles : DoRemove(item)
    \/ NextStack
    \/ NextQueue

SpecClear == InitClear /\ [][NextClear]_vars

\* ------------------------------------------------------------ type invariant
TypeOK ==
    /\ nextItem \in 1..(PushLimit + 1)
    /\ \A i \in 1..Len(pq.items) : pq.items[i] \in Handles /\ pq.items[i] < nextItem
    /\ last.err \in {"nil", "empty", "panic"}
    /\ nextNode \in 1..(MaxNodes + 1)
    /\ stack.top \in Nodes \cup {nil} /\ stack.top < nextNode
    /\ queue.front \in Nodes \cup {nil} /\ queue.front < nextNode
    /\ queue.rear \in Nodes \cup {nil} /\ queue.rear < nextNode
    /\ \A n \in Nodes : stack.Value[n] \in Ints /\ queue.Value[n] \in Ints

\* ---------------------------------------------------------------- notions
\* a is not of lower priority than b, by the comparator itself.
NotLower(q, a, b) ==
    IF q.isMaxHeap THEN Call(q.compare, a, b) >= 0 ELSE Call(q.compare, a, b) <= 0

\* a is of strictly higher priority than b.
Higher(q, a, b) ==
    IF q.isMaxHeap THEN Call(q.compare, a, b) > 0 ELSE Call(q.compare, a, b) < 0

ValueAt(q, i) == q.Value[At(q, i)]

HeapInvariant(q) ==
    \A i \in 1..(Size(q) - 1) : NotLower(q, ValueAt(q, GoDiv(i - 1, 2)), ValueAt(q, i))

\* How many queued Items hold value x; how often x occurs in a sequence.
Count(q, x) == Cardinality({i \in 0..(Size(q) - 1) : ValueAt(q, i) = x})

CountIn(seq, x) == Cardinality({i \in 1..Len(seq) : seq[i] = x})

QueuedItems(q) == {q.items[i] : i \in 1..Len(q.items)}

\* The values of Pop until IsEmpty.
RECURSIVE DrainValues(_)
DrainValues(q) ==
    IF IsEmpty(q) THEN <<>> ELSE LET r == Pop(q) IN <<r.val>> \o DrainValues(r.q)

Sorted(q, seq) ==
    \A i \in 1..(Len(seq) - 1) : NotLower(q, seq[i], seq[i + 1])

\* ------------------------------------------------------------------ claims

\* C1: after any sequence of Push, Pop, Remove of a queued handle, Clear and
\* UpdateItem right after one external change of the item's value, the item at
\* every non-root position i is not of higher priority than its parent at
\* (i-1)/2 (min queue: compare(parent, child) <= 0; max queue: >= 0).
C1_HeapInvariant == HeapInvariant(pq)

C1_Witness ==
    /\ last.op = "UpdateItem"
    /\ Size(pq) >= 4
    /\ Higher(pq, ValueAt(pq, 0), ValueAt(pq, 1))
    /\ Higher(pq, ValueAt(pq, 1), ValueAt(pq, 3))

\* C2: in every reachable state the Item stored at position i of the backing
\* array has Index = i, for every i in 0..Size()-1, so the stored handles are
\* distinct.
C2_IndexIsPosition ==
    /\ \A i \in 0..(Size(pq) - 1) : pq.Index[At(pq, i)] = i
    /\ Cardinality(QueuedItems(pq)) = Size(pq)

C2_Witness ==
    /\ last.op = "Remove"
    /\ Size(pq) >= 3
    /\ \E i \in 0..(Size(pq) - 2) : At(pq, i) > At(pq, i + 1)

\* C3: Pop on a non-empty queue returns, without error, a value v of the queue
\* such that no queued value has strictly higher priority than v, and leaves
\* the multiset of queued values less one occurrence of v.
C3_PopReturnsTop ==
    ~IsEmpty(pq) =>
        LET r == Pop(pq)
        IN  /\ r.err = "nil"
            /\ Count(pq, r.val) >= 1
            /\ \A i \in 0..(Size(pq) - 1) : ~Higher(pq, ValueAt(pq, i), r.val)
            /\ \A x \in Values :
                   Count(r.q, x) = Count(pq, x) - (IF x = r.val THEN 1 ELSE 0)

C3_Witness ==
    /\ last.op = "Pop"
    /\ last.err = "nil"
    /\ Size(pq) >= 3
    /\ Higher(pq, Pop(pq).val, ValueAt(pq, Size(pq) - 1))

\* C4 as stated: of two successive successful Pops returning a then b with no
\* Push in between, a is not of lower priority than b (min queue:
\* compare(a, b) <= 0; max queue: compare(a, b) >= 0).
C4_PopOrderNoPush ==
    (prevPop.prev # <<>> /\ prevPop.cur # <<>>) =>
        NotLower(pq, prevPop.prev[1], prevPop.cur[1])

\* C4 amended: the same, when between the two Pops there is no Push and the
\* caller changed no queued value (no UpdateItem after a value change).
C4_PopOrder ==
    (prevPop.prev # <<>> /\ prevPop.cur # <<>> /\ ~prevPop.changed) =>
        NotLower(pq, prevPop.prev[1], prevPop.cur[1])

C4_Witness ==
    /\ prevPop.prev # <<>>
    /\ prevPop.cur # <<>>
    /\ ~prevPop.changed
    /\ Higher(pq, prevPop.prev[1], prevPop.cur[1])
    /\ Size(pq) >= 2

\* C5: n values pushed into an empty queue and popped until IsEmpty come out
\* as n values, a permutation of the pushed ones, each not of lower priority
\* than the next (non-decreasing for a min queue, non-increasing for a max
\* queue), for the one-field and for the lexicographic comparator.
C5_DrainIsSort ==
    (drain.phase = "pop" /\ IsEmpty(pq)) =>
        /\ Len(drain.out) = Len(drain.in)
        /\ \A x \in Values : CountIn(drain.out, x) = CountIn(drain.in, x)
        /\ Sorted(pq, drain.out)

C5_Witness ==
    /\ drain.phase = "pop"
    /\ IsEmpty(pq)
    /\ Len(drain.in) = 4
    /\ pq.compare.fn = "jobCompare"
    /\ drain.out # drain.in
    /\ \A i \in 1..3 : drain.out[i] # drain.out[i + 1]

\* C6: Remove(item) of a queued item at any position removes exactly that
\* item: Size() drops by one, the handle is gone from the backing array, every
\* other handle is there exactly once, and draining the queue then yields
\* exactly the remaining values.
C6_RemoveExactlyItem ==
    \A item \in QueuedItems(pq) :
        LET r == Remove(pq, item)
        IN  /\ r.err = "nil"
            /\ Size(r.q) = Size(pq) - 1
            /\ QueuedItems(r.q) = QueuedItems(pq) \ {item}
            /\ Cardinality(QueuedItems(r.q)) = Size(r.q)
            /\ \A x \in QueuedItems(r.q) : r.q.Value[x] = pq.Value[x]
            /\ Len(DrainValues(r.q)) = Size(pq) - 1
            /\ \A x \in Values :
                   CountIn(DrainValues(r.q), x)
                       = Count(pq, x) - (IF x = pq.Value[item] THEN 1 ELSE 0)

C6_Witness ==
    /\ last.op = "Remove"
    /\ Size(pq) >= 3
    /\ \E item \in QueuedItems(pq) :
           /\ pq.Index[item] = 1
           /\ Remove(pq, item).q.items # SubSeq(pq.items, 1, Size(pq) - 1)

\* C7: when the heap invariant holds, one queued item's value is changed to
\* any value and UpdateItem(item) is called, the heap invariant holds again
\* over the whole array, and Size() and the set of stored handles are as before.
C7_UpdateItemRestores ==
    HeapInvariant(pq) =>
        \A item \in QueuedItems(pq), v \in Values :
            LET r == UpdateItem(SetValue(pq, item, v), item)
            IN  /\ r.err = "nil"
                /\ HeapInvariant(r.q)
                /\ Size(r.q) = Size(pq)
                /\ QueuedItems(r.q) = QueuedItems(pq)
                /\ r.q.Value = SetValue(pq, item, v).Value

C7_Witness ==
    /\ last.op = "UpdateItem"
    /\ Size(pq) >= 4
    /\ \E item \in QueuedItems(pq), v \in Values :
           /\ pq.Index[item] = 1
           /\ ~HeapInvariant(SetValue(pq, item, v))
           /\ UpdateItem(SetValue(pq, item, v), item).q.Index[item] = 3

\* C8: in a min queue, when an item's value is lowered to a value strictly
\* below every other queued item's and UpdateItem(item) is called, the next Pop
\* returns that value, wherever the item was.
C8_LoweredItemPopsNext ==
    ~pq.isMaxHeap =>
        \A item \in QueuedItems(pq), v \in Values :
            (/\ Call(pq.compare, v, pq.Value[item]) < 0
             /\ \A x \in QueuedItems(pq) \ {item} :
                    Call(pq.compare, v, pq.Value[x]) < 0)
            => LET u == UpdateItem(SetValue(pq, item, v), item)
                   r == Pop(u.q)
               IN  u.err = "nil" /\ r.err = "nil" /\ r.val = v /\ r.item = item

C8_Witness ==
    /\ ~pq.isMaxHeap
    /\ Size(pq) >= 4
    /\ \E item \in QueuedItems(pq), v \in Values :
           /\ pq.Index[item] = 3
           /\ Call(pq.compare, v, pq.Value[item]) < 0
           /\ \A x \in QueuedItems(pq) \ {item} : Call(pq.compare, v, pq.Value[x]) < 0
           /\ Pop(UpdateItem(SetValue(pq, item, v), item).q).item = item

\* C9: NewMaxQueue(c) and NewMinQueue(ReverseCompare(c)), for c returning
\* -1, 0 or +1, given the same calls have the same backing array after every
\* call and return the same results.
C9_MaxIsMinOfReverse ==
    /\ pq.isMaxHeap /\ ~pq2.isMaxHeap
    /\ pq2.compare = ReverseCompare(pq.compare)
    /\ pq2.items = pq.items
    /\ pq2.Value = pq.Value
    /\ pq2.Index = pq.Index
    /\ Pop(pq2).val = Pop(pq).val /\ Pop(pq2).err = Pop(pq).err
    /\ Peek(pq2).val = Peek(pq).val /\ Peek(pq2).err = Peek(pq).err

C9_Witness ==
    /\ mode = "mirror"
    /\ last.op = "Pop"
    /\ Size(pq2) >= 3
    /\ pq.compare.fn = "TaskByPriority"
    /\ Call(pq.compare, ValueAt(pq, 0), ValueAt(pq, 1)) = 0
    /\ ValueAt(pq2, 0) # ValueAt(pq2, 1)
    /\ Call(pq.compare, ValueAt(pq, 0), ValueAt(pq, 2)) > 0

\* C10: Peek on a non-empty queue returns the value the Pop right after it
\* returns, and leaves the queue as it was: same Size(), same backing array,
\* same Index of every item.
C10_PeekIsNextPop ==
    ~IsEmpty(pq) =>
        LET r == Peek(pq)
        IN  /\ r.err = "nil"
            /\ r.val = Pop(r.q).val
            /\ Size(r.q) = Size(pq)
            /\ r.q.items = pq.items
            /\ r.q.Index = pq.Index

C10_Witness ==
    /\ last.op = "Peek"
    /\ last.err = "nil"
    /\ Size(pq) >= 3
    /\ Peek(pq).val # ValueAt(pq, Size(pq) - 1)

\* ------------------------------------------------------------------------ C11
\* A call that fails with the empty-collection error leaves the structure as
\* it was, with Size() == 0, and a value pushed next is the one popped next.
StackFailed(r) ==
    /\ r.s = stack
    /\ StackSize(r.s) = 0
    /\ \A v \in Ints :
          LET p == StackPop(StackPush(r.s, 1, v))
          IN  p.err = "nil" /\ p.val = v /\ StackSize(p.s) = 0

QueueFailed(r) ==
    /\ r.q = queue
    /\ QueueSize(r.q) = 0
    /\ \A v \in Ints :
          LET p == QueuePop(QueuePush(r.q, 1, v))
          IN  p.err = "nil" /\ p.val = v /\ QueueSize(p.q) = 0

PQFailed(r) ==
    /\ r.q = pq
    /\ Size(r.q) = 0
    /\ \A v \in Values :
          LET p == Pop(Push(r.q, 1, v))
          IN  p.err = "nil" /\ p.val = v /\ Size(p.q) = 0

\* C11: Pop and Peek of a Stack, Pop, Front and Rear of a Queue, Pop and Peek
\* of a PriorityQueue return the empty-collection error exactly when the
\* structure holds zero elements (Size() == 0); the failed call leaves the
\* structure unchanged, still of size 0, and usable.
C11_EmptyError ==
    /\ \A r \in {StackPop(stack), StackPeek(stack)} :
          /\ r.err = "empty" <=> StackSize(stack) = 0
          /\ r.err = "empty" => StackFailed(r)
    /\ \A r \in {QueuePop(queue), QueueFront(queue), QueueRear(queue)} :
          /\ r.err = "empty" <=> QueueSize(queue) = 0
          /\ r.err = "empty" => QueueFailed(r)
    /\ \A r \in {[q |-> Pop(pq).q, err |-> Pop(pq).err], [q |-> Peek(pq).q, err |-> Peek(pq).err]} :
          /\ r.err = "empty" <=> Size(pq) = 0
          /\ r.err = "empty" => PQFailed(r)

\* A Stack that was pushed to and drained, whose latest Pop failed.
C11_Witness ==
    /\ mode = "stack"
    /\ last = [op |-> "Pop", err |-> "empty"]
    /\ hist.pops > 0
    /\ ~hist.cleared

\* ------------------------------------------------------------------------ C12
\* C12: since NewMinQueue/NewMaxQueue or the last Clear, Size() is the number
\* of Push calls minus the successful Pop calls minus the Remove calls on
\* queued items; it is never negative; IsEmpty() holds exactly when Size() is
\* 0; a failed Pop, Peek, ToSlice and UpdateItem leave Size() as it is.
C12_SizeInvariant ==
    /\ Size(pq) = calls.Push - calls.Pop - calls.Remove
    /\ Size(pq) >= 0
    /\ IsEmpty(pq) <=> Size(pq) = 0
    /\ Pop(pq).err # "nil" => Size(Pop(pq).q) = Size(pq)
    /\ Size(Peek(pq).q) = Size(pq)
    /\ Size(ToSlice(pq).q) = Size(pq)
    /\ \A item \in Handles, v \in Values \cup {NoValue} :
          Queued(pq, item) =>
              Size(UpdateItem(SetValue(pq, item, v), item).q) = Size(pq)

\* Pushes, a Pop and a Remove were counted, and one Item is left.
C12_Witness ==
    /\ mode = "count"
    /\ calls.Push >= 3
    /\ calls.Pop >= 1
    /\ calls.Remove >= 1
    /\ Size(pq) = 1

\* ------------------------------------------------------------------------ C13
\* The values successive Pops return until the Queue is empty.
RECURSIVE QueueDrain(_)
QueueDrain(q) ==
    IF QueuePop(q).err # "nil" THEN <<>>
    ELSE <<QueuePop(q).val>> \o QueueDrain(QueuePop(q).q)

\* The pushed values from the k-th on.
From(pushed, k) == SubSeq(pushed, k, Len(pushed))

\* C13: on a Queue that was not cleared, whatever the interleaving of Push and
\* Pop calls, the n-th successful Pop returns the value of the n-th Push (and
\* unlinks its Node): after n - 1 successful Pops the next Pop succeeds exactly
\* when an n-th Push was made, and the Pops from there on return the values of
\* the n-th, (n+1)-th, ... Push in that order.
C13_QueueFIFO ==
    (mode = "queue" /\ ~hist.cleared) =>
        /\ hist.pops <= Len(hist.pushed)
        /\ QueuePop(queue).err = "nil" <=> hist.pops < Len(hist.pushed)
        /\ QueuePop(queue).err = "nil" =>
              /\ QueuePop(queue).val = hist.pushed[hist.pops + 1]
              /\ queue.front = hist.pops + 1
        /\ QueueDrain(queue) = From(hist.pushed, hist.pops + 1)

\* Pushes after a Pop, two Pops done, and more than one value still queued.
C13_Witness ==
    /\ mode = "queue"
    /\ ~hist.cleared
    /\ hist.mixed
    /\ hist.pops >= 2
    /\ last = [op |-> "Pop", err |-> "nil"]
    /\ QueueSize(queue) >= 2

\* ------------------------------------------------------------------------ C14
\* The values successive Pops return until the Stack is empty.
RECURSIVE StackDrain(_)
StackDrain(s) ==
    IF StackPop(s).err # "nil" THEN <<>>
    ELSE <<StackPop(s).val>> \o StackDrain(StackPop(s).s)

Latest(live) == CHOOSE k \in live : \A j \in live : j <= k

\* The values of the pushes in live, the most recent first.
RECURSIVE LatestFirst(_, _)
LatestFirst(pushed, live) ==
    IF live = {} THEN <<>>
    ELSE <<pushed[Latest(live)]>> \o LatestFirst(pushed, live \ {Latest(live)})

\* C14: whatever the interleaving of Push and Pop calls on a Stack, Pop
\* succeeds exactly when some pushed value was not popped yet, and returns the
\* most recently pushed one of them (unlinking its Node); the Pops from there
\* on return the values not popped yet, the most recently pushed first.
C14_StackLIFO ==
    (mode = "stack" /\ ~hist.cleared) =>
        /\ StackPop(stack).err = "nil" <=> hist.live # {}
        /\ StackPop(stack).err = "nil" =>
              /\ StackPop(stack).val = hist.pushed[Latest(hist.live)]
              /\ stack.top = Latest(hist.live)
        /\ StackDrain(stack) = LatestFirst(hist.pushed, hist.live)

\* Pushes and Pops were interleaved: after the latest Pop an earlier push is
\* still on the Stack below a later one, and a push made between the two has
\* been popped.
C14_Witness ==
    /\ mode = "stack"
    /\ ~hist.cleared
    /\ last = [op |-> "Pop", err |-> "nil"]
    /\ \E i, j, k \in 1..Len(hist.pushed) :
          /\ i < j /\ j < k
          /\ i \in hist.live /\ j \notin hist.live /\ k \in hist.live

\* ------------------------------------------------------------------------ C15
\* The value pushed at the (total_pushes - n + 1)-th Push, for the n-th Pop,
\* n - 1 Pops having succeeded and total_pushes Pushes having been made.
PushCountedBack(h) == h.pushed[Len(h.pushed) - (h.pops + 1) + 1]

\* C15 as stated: whatever the interleaving of Push and Pop calls, the Stack
\* being non-empty at every Pop, the n-th Pop returns the value pushed at the
\* (total_pushes - n + 1)-th Push.  (A failed Pop changes neither the Stack
\* nor what the caller remembers, so every state is also reached without one.)
C15_PopCountsBack ==
    (mode = "stack" /\ ~hist.cleared /\ ~StackIsEmpty(stack)) =>
        StackPop(stack).val = PushCountedBack(hist)

\* C15, amended: as long as no Push was made after a successful Pop, the n-th
\* Pop on a non-empty Stack returns the value pushed at the
\* (total_pushes - n + 1)-th Push.
C15_PopCountsBackNoPushAfterPop ==
    (mode = "stack" /\ ~hist.cleared /\ ~hist.mixed /\ ~StackIsEmpty(stack)) =>
        /\ stack.top = Len(hist.pushed) - (hist.pops + 1) + 1
        /\ StackPop(stack).err = "nil"
        /\ StackPop(stack).val = PushCountedBack(hist)

\* Three pushes, then Pops only, and the Stack is not drained yet.
C15_Witness ==
    /\ mode = "stack"
    /\ ~hist.cleared
    /\ ~hist.mixed
    /\ Len(hist.pushed) >= 3
    /\ hist.pops >= 1
    /\ last = [op |-> "Pop", err |-> "nil"]
    /\ ~StackIsEmpty(stack)

\* ------------------------------------------------------------------------ C16
\* C16: in every state reached by Push, Pop and Clear calls on a Queue, size
\* is the number of Nodes reachable from front; size == 0, front == nil and
\* rear == nil hold together or not at all; a non-empty Queue has rear the
\* last Node of the chain from front, with rear.Next == nil; a Queue of size
\* 1 has front == rear, and popping its element leaves front and rear nil.
C16_QueueStructure ==
    LET chain == Chain(queue, queue.front)
    IN  /\ queue.size = Len(chain)
        /\ queue.size = 0 <=> queue.front = nil
        /\ queue.front = nil <=> queue.rear = nil
        /\ queue.size # 0 =>
              /\ queue.rear = chain[Len(chain)]
              /\ queue.Next[queue.rear] = nil
        /\ queue.size = 1 =>
              /\ queue.front = queue.rear
              /\ QueuePop(queue).q.front = nil
              /\ QueuePop(queue).q.rear = nil

\* The last remaining element of a Queue was popped.
C16_Witness ==
    /\ mode = "queue"
    /\ last = [op |-> "Pop", err |-> "nil"]
    /\ hist.pops >= 2
    /\ queue.size = 0
    /\ queue.front = nil
    /\ queue.rear = nil

\* ------------------------------------------------------------------------ C17
\* C17: in every state reached by Push, Pop and Clear calls on a Stack, size
\* is the number of Nodes reachable from top, and size == 0 exactly when
\* top == nil: IsEmpty() and Size() == 0 agree.
C17_StackStructure ==
    /\ stack.size = Len(Chain(stack, stack.top))
    /\ stack.size = 0 <=> stack.top = nil
    /\ StackIsEmpty(stack) <=> StackSize(stack) = 0

\* A Stack that was cleared, pushed to again and popped, with Nodes left.
C17_Witness ==
    /\ mode = "stack"
    /\ hist.cleared
    /\ last = [op |-> "Pop", err |-> "nil"]
    /\ stack.size >= 2

\* ------------------------------------------------------------------------ C18
\* What the caller can see of a structure: Size(), IsEmpty(), and the value
\* and error the next Pop returns.
SeenOfStack(s) ==
    [size |-> StackSize(s), empty |-> StackIsEmpty(s),
     val |-> StackPop(s).val, err |-> StackPop(s).err]

SeenOfQueue(q) ==
    [size |-> QueueSize(q), empty |-> QueueIsEmpty(q),
     val |-> QueuePop(q).val, err |-> QueuePop(q).err]

SeenOfPQ(q) ==
    [size |-> Size(q), empty |-> IsEmpty(q), val |-> Pop(q).val, err |-> Pop(q).err]

\* C18: from every reachable state of a Stack, a Queue and a PriorityQueue,
\* Clear() gives Size() == 0 and IsEmpty() true, and a value pushed next is
\* popped next with no error; and after every sequence of pushes and pops
\* made since the Clear, the structure shows the caller (sizes, emptiness,
\* the next Pop) what a newly constructed one shows after the same calls.
C18_ClearRoundTrip ==
    /\ LET s == StackClear(stack)
       IN  /\ StackSize(s) = 0 /\ StackIsEmpty(s)
           /\ \A v \in Ints : StackPop(StackPush(s, 1, v)).val = v
                              /\ StackPop(StackPush(s, 1, v)).err = "nil"
    /\ LET q == QueueClear(queue)
       IN  /\ QueueSize(q) = 0 /\ QueueIsEmpty(q)
           /\ \A v \in Ints : QueuePop(QueuePush(q, 1, v)).val = v
                              /\ QueuePop(QueuePush(q, 1, v)).err = "nil"
    /\ LET q == Clear(pq)
       IN  /\ Size(q) = 0 /\ IsEmpty(q)
           /\ \A v \in Values : Pop(Push(q, 1, v)).val = v
                                /\ Pop(Push(q, 1, v)).err = "nil"
    /\ twin.made /\ mode = "stack" => SeenOfStack(stack) = SeenOfStack(twin.of)
    /\ twin.made /\ mode = "queue" => SeenOfQueue(queue) = SeenOfQueue(twin.of)
    /\ twin.made /\ mode = "clear" => SeenOfPQ(pq) = SeenOfPQ(twin.of)

\* A priority queue cleared of several Items (a discarded Item still has the
\* Index of a position behind the root), then pushed to twice and popped.
C18_Witness ==
    /\ mode = "clear"
    /\ twin.made
    /\ last = [op |-> "Pop", err |-> "nil"]
    /\ Size(pq) = 1
    /\ \E item \in Handles : ~Queued(pq, item) /\ pq.Index[item] > 0

\* ------------------------------------------------------------------------ C19
\* C19: ToSlice returns a slice of length Size() whose element i is the Item
\* stored at heap position i (its Index is i, and element 0 holds the value
\* Peek returns), and returns the queue unchanged; the slice the caller holds
\* keeps its length and lists the same Items whatever Push, Pop and Remove
\* calls are made on the queue afterwards.
C19_ToSliceIsCopy ==
    /\ LET r == ToSlice(pq)
           l == Listed(r.result, r.q)
       IN  /\ r.q = pq
           /\ r.result.len = Size(pq)
           /\ Len(l) = Size(pq)
           /\ \A i \in 0..(Size(pq) - 1) :
                 l[i + 1] # NoItem /\ l[i + 1] = At(pq, i) /\ pq.Index[l[i + 1]] = i
           /\ ~IsEmpty(pq) => pq.Value[l[1]] = Peek(pq).val
    /\ slice.held =>
          /\ slice.result.len = Len(slice.taken)
          /\ Listed(slice.result, pq) = slice.taken

\* The caller holds a slice of three Items, and the queue has since lost
\* Items, got new ones and no longer has the first listed Item at its root.
C19_Witness ==
    /\ mode = "slice"
    /\ slice.held
    /\ Len(slice.taken) = 3
    /\ Size(pq) = 2
    /\ \E item \in Handles :
          Queued(pq, item) /\ \A i \in 1..3 : slice.taken[i] # item
    /\ At(pq, 0) # slice.taken[1]

\* ------------------------------------------------------------------------ C20
\* C20: Queue.ToSlice returns the values of the Nodes from front to rear,
\* which is the order in which successive Pops return them; the slice has
\* Size() elements (none for an empty Queue); the Queue is left unchanged.
C20_QueueToSlice ==
    LET r == QueueToSlice(queue)
        chain == Chain(queue, queue.front)
    IN  /\ r.result = [i \in 1..Len(chain) |-> queue.Value[chain[i]]]
        /\ r.result = QueueDrain(queue)
        /\ Len(r.result) = QueueSize(queue)
        /\ QueueIsEmpty(queue) => r.result = <<>>
        /\ r.q = queue

\* ToSlice was called on a Queue of three values, the first and the last
\* different, after a Pop.
C20_Witness ==
    /\ mode = "queue"
    /\ last = [op |-> "ToSlice", err |-> "nil"]
    /\ hist.pops >= 1
    /\ QueueSize(queue) = 3
    /\ QueueFront(queue).val # QueueRear(queue).val

\* ------------------------------------------------------------------------ C21
\* The Item `item` has left queue q: its Index is -1 and it is at no position
\* of the array, and every Item still queued has an Index in 0..Size()-1.
Discarded(q, item) ==
    /\ q.Index[item] = -1
    /\ \A i \in 0..(Size(q) - 1) : At(q, i) # item
    /\ \A x \in QueuedItems(q) : q.Index[x] \in 0..(Size(q) - 1)

\* C21: right after a successful Pop, and after a Remove of a queued Item,
\* the Item that left has Index -1 and is at no position of the backing
\* array, and every Item still queued has an Index in 0..Size()-1.
C21_DiscardInvalidates ==
    /\ ~IsEmpty(pq) =>
          /\ Pop(pq).err = "nil"
          /\ Pop(pq).item \in QueuedItems(pq)
          /\ Discarded(Pop(pq).q, Pop(pq).item)
    /\ \A item \in QueuedItems(pq) :
          /\ Remove(pq, item).err = "nil"
          /\ Discarded(Remove(pq, item).q, item)

\* An Item was removed from a queue that still holds two, and some Item that
\* left the queue has Index -1.
C21_Witness ==
    /\ mode = "contract"
    /\ last = [op |-> "Remove", err |-> "nil"]
    /\ Size(pq) >= 2
    /\ \E item \in Handles : item < nextItem /\ ~Queued(pq, item) /\ pq.Index[item] = -1

\* ------------------------------------------------------------------------ C22
\* C22: Peek on a non-empty Stack returns, with no error, the value the next
\* Pop returns (the most recently pushed value not popped yet) and leaves the
\* Stack as it was: same Size(), same values in the same order.
C22_StackPeek ==
    ~StackIsEmpty(stack) =>
        LET r == StackPeek(stack)
        IN  /\ r.err = "nil"
            /\ r.val = StackPop(stack).val
            /\ mode = "stack" /\ ~hist.cleared => r.val = hist.pushed[Latest(hist.live)]
            /\ r.s = stack
            /\ StackSize(r.s) = StackSize(stack)
            /\ StackDrain(r.s) = StackDrain(stack)

\* Peek was called on a Stack of two or more values left by interleaved
\* pushes and pops, the top value differing from the one below.
C22_Witness ==
    /\ mode = "stack"
    /\ last = [op |-> "Peek", err |-> "nil"]
    /\ hist.mixed
    /\ StackSize(stack) >= 2
    /\ StackDrain(stack)[1] # StackDrain(stack)[2]

\* ------------------------------------------------------------------------ C23
\* C23: on a non-empty Queue, Front returns the value the next Pop returns
\* (the oldest one not popped yet) and Rear the most recently pushed value;
\* both leave the Queue as it was; with one element they return the same.
C23_QueueFrontRear ==
    /\ ~QueueIsEmpty(queue) =>
          LET f == QueueFront(queue)
              r == QueueRear(queue)
          IN  /\ f.err = "nil" /\ r.err = "nil"
              /\ f.val = QueuePop(queue).val
              /\ f.val = QueueDrain(queue)[1]
              /\ r.val = QueueDrain(queue)[QueueSize(queue)]
              /\ mode = "queue" /\ ~hist.cleared =>
                    /\ f.val = hist.pushed[hist.pops + 1]
                    /\ r.val = hist.pushed[Len(hist.pushed)]
              /\ f.q = queue /\ r.q = queue
              /\ QueueSize(queue) = 1 => f.val = r.val
    /\ nextNode <= MaxNodes =>
          \A v \in Ints : QueueRear(QueuePush(queue, nextNode, v)).val = v

\* Rear was called on a Queue of two or more values, after a Pop, the value
\* at the front differing from the one at the rear.
C23_Witness ==
    /\ mode = "queue"
    /\ last = [op |-> "Rear", err |-> "nil"]
    /\ hist.pops >= 1
    /\ QueueSize(queue) >= 2
    /\ QueueFront(queue).val # QueueRear(queue).val

\* ------------------------------------------------------------------------ C24
\* C24: from a valid heap in which the value of one queued Item was changed,
\* UpdateItem(item) leaves the array and every Index as does 'sift the Item
\* up from its position; only if it did not move, sift it down', and the Item
\* does not move in both directions: the result is that of the sift-up alone
\* or that of the sift-down alone, and the two never both move the Item.
C24_UpdateItemAsUpThenDown ==
    \A item \in QueuedItems(pq), v \in Values :
        LET h == SetValue(pq, item, v)
            i == h.Index[item]
            r == UpdateItem(h, item)
            u == up(h, i)
            d == down(h, i, HLen(h))
            upThenDown == IF u.Index[item] # i THEN u ELSE down(u, i, HLen(u)).h
        IN  /\ r.err = "nil"
            /\ r.q.items = upThenDown.items
            /\ r.q.Index = upThenDown.Index
            /\ ~(d.moved /\ u.Index[item] # i)
            /\ r.q = u \/ r.q = d.h

\* UpdateItem was called on a queue of four Items, one of them at depth 2.
C24_Witness ==
    /\ mode = "contract"
    /\ last = [op |-> "UpdateItem", err |-> "nil"]
    /\ Size(pq) = 4
    /\ \E i \in 1..3 : Higher(pq, ValueAt(pq, 0), ValueAt(pq, i))

\* ------------------------------------------------------------------------ C25
\* The array after 'swap position p with the last position, shrink by one,
\* sift the moved-in element up from p; only if it did not move, sift it down
\* from p', and whether the sift-up moved it.
SwapShrinkUpThenDown(q, p) ==
    LET h == hPop(Swap(q, p, HLen(q) - 1)).h
        movedIn == At(h, p)
        u == up(h, p)
        wentUp == u.Index[movedIn] # p
    IN  [h |-> IF wentUp THEN u ELSE down(u, p, HLen(u)).h, wentUp |-> wentUp]

\* C25: for a valid heap and a queued Item at a position p that is not the
\* last, Remove(item) leaves the array (and every Index) as does 'swap p with
\* the last position, shrink by one, sift the moved-in element up from p;
\* only if it did not move, sift it down from p'.
C25_RemoveAsUpThenDown ==
    \A item \in QueuedItems(pq) :
        pq.Index[item] # Size(pq) - 1 =>
            /\ Remove(pq, item).err = "nil"
            /\ Remove(pq, item).q.items = SwapShrinkUpThenDown(pq, pq.Index[item]).h.items
            /\ Remove(pq, item).q.Index = SwapShrinkUpThenDown(pq, pq.Index[item]).h.Index

\* A heap of six Items with one whose removal moves the last element into
\* its place and from there up.
C25_Witness ==
    /\ mode = "grow"
    /\ Size(pq) = 6
    /\ \E item \in QueuedItems(pq) :
          /\ pq.Index[item] # Size(pq) - 1
          /\ SwapShrinkUpThenDown(pq, pq.Index[item]).wentUp
          /\ Remove(pq, item).err = "nil"

\* ------------------------------------------------------------------------ C26
\* C26: Remove of the Item at the last position only shrinks the array: the
\* other Items keep their positions, Index and Value, the removed Item's
\* Index becomes -1; so too for the only Item of a one-element queue.
C26_RemoveLast ==
    \A item \in QueuedItems(pq) :
        pq.Index[item] = Size(pq) - 1 =>
            LET r == Remove(pq, item)
            IN  /\ r.err = "nil"
                /\ r.q.items = SubSeq(pq.items, 1, Size(pq) - 1)
                /\ r.q.Index[item] = -1
                /\ \A x \in Handles \ {item} :
                      r.q.Index[x] = pq.Index[x] /\ r.q.Value[x] = pq.Value[x]

\* The only Item of a one-element queue was removed.
C26_Witness ==
    /\ mode = "contract"
    /\ last = [op |-> "Remove", err |-> "nil"]
    /\ IsEmpty(pq)
    /\ nextItem = 2
    /\ pq.Index[1] = -1

\* ------------------------------------------------------------------------ C27
\* The position above j in the array, as heap.up computes it.
Parent(j) == GoDiv(j - 1, 2)

RECURSIVE PathToRoot(_)
\* The positions heap.up visits from j: j, its parent, ..., the root.
PathToRoot(j) == IF j <= 0 THEN {0} ELSE {j} \cup PathToRoot(Parent(j))

\* C27: Push appends the new Item at position Size() and moves it up only
\* past parents of strictly lower priority: it ends on the path from the new
\* leaf to the root, under a parent it is not strictly higher than; it stays
\* at the leaf when it is not strictly higher than the leaf's parent; an Item
\* that changes position was on that path, has strictly lower priority than
\* the new value and moves to the child position one level down; every Item
\* off the path keeps its Index.
C27_PushSiftUpStrict ==
    nextItem <= PushLimit =>
        \A v \in Values :
            LET n == Size(pq)
                r == Push(pq, nextItem, v)
                f == r.Index[nextItem]
            IN  /\ Size(r) = n + 1
                /\ f \in PathToRoot(n)
                /\ At(r, f) = nextItem
                /\ f > 0 => ~Higher(r, v, ValueAt(r, Parent(f)))
                /\ (n > 0 /\ ~Higher(pq, v, ValueAt(pq, Parent(n)))) =>
                      /\ f = n
                      /\ \A x \in QueuedItems(pq) : r.Index[x] = pq.Index[x]
                /\ \A x \in QueuedItems(pq) :
                      /\ pq.Index[x] \notin PathToRoot(n) =>
                            r.Index[x] = pq.Index[x]
                      /\ r.Index[x] # pq.Index[x] =>
                            /\ pq.Index[x] \in PathToRoot(n)
                            /\ pq.Index[x] = Parent(r.Index[x])
                            /\ r.Index[x] \in PathToRoot(n)
                            /\ Higher(pq, v, pq.Value[x])

\* The sixth Item was pushed with a priority equal to its parent's and stayed
\* at the new leaf, below a root of the same priority.
C27_Witness ==
    /\ mode = "grow"
    /\ last = [op |-> "Push", err |-> "nil"]
    /\ Size(pq) = MaxGrown
    /\ pq.Index[MaxGrown] = MaxGrown - 1
    /\ Call(pq.compare, pq.Value[MaxGrown],
             ValueAt(pq, Parent(MaxGrown - 1))) = 0
    /\ pq.Value[MaxGrown] # ValueAt(pq, Parent(MaxGrown - 1))

\* ------------------------------------------------------------------------ C28
\* The other child of the parent of position c, as heap.down numbers them.
Sibling(c) == IF c % 2 = 1 THEN c + 1 ELSE c - 1

\* C28: Pop moves the last Item m to the root and sifts it down over the
\* first Size()-1 positions. Every Item that m passes had strictly higher
\* priority than m and priority not lower than its sibling's, and moves up
\* one level; m ends at a position none of whose children has strictly
\* higher priority than m; every other remaining Item keeps its Index.
C28_PopSiftDownRule ==
    Size(pq) >= 2 =>
        LET n == Size(pq) - 1
            m == At(pq, n)
            r == Pop(pq).q
            f == r.Index[m]
            passed == PathToRoot(f) \ {0}
        IN  /\ Size(r) = n
            /\ f \in 0..(n - 1)
            /\ At(r, f) = m
            /\ \A c \in passed :
                  /\ c < n
                  /\ r.Index[At(pq, c)] = Parent(c)
                  /\ Higher(pq, ValueAt(pq, c), pq.Value[m])
                  /\ Sibling(c) < n =>
                        NotLower(pq, ValueAt(pq, c), ValueAt(pq, Sibling(c)))
            /\ \A c \in {2 * f + 1, 2 * f + 2} :
                  c < n => ~Higher(pq, ValueAt(pq, c), pq.Value[m])
            /\ \A c \in 1..(n - 1) :
                  c \notin PathToRoot(f) => r.Index[At(pq, c)] = c

\* A six-Item queue whose Pop takes the last Item down two levels, the second
\* time through the right child, past a left child of equal priority.
C28_Witness ==
    /\ mode = "grow"
    /\ Size(pq) = MaxGrown
    /\ Pop(pq).q.Index[At(pq, MaxGrown - 1)] = 4
    /\ Call(pq.compare, ValueAt(pq, 3), ValueAt(pq, MaxGrown - 1)) = 0

\* ------------------------------------------------------------------------ C29
\* Three Items pushed in handle order 1, 2, 3 into a new queue like q.
PushedThree(q, v1, v2, v3) == Push(Push(Push(NewLike(q), 1, v1), 2, v2), 3, v3)

\* Items 1 and 2 pushed, one Pop, then Item 3 pushed.
PushedAroundPop(q, v1, v2, v3) ==
    Push(Pop(Push(Push(NewLike(q), 1, v1), 2, v2)).q, 3, v3)

\* C29: the queue is not stable.  For any three values of equal priority
\* pushed in the order 1, 2, 3, the first Pop returns Item 1 and the second
\* returns Item 3, before Item 2 that was pushed earlier; and the order in
\* which Items 2 and 3 leave depends on the history: when the Pop of Item 1
\* comes before the Push of Item 3, Item 2 is popped before Item 3.
C29_NotStable ==
    \A v1, v2, v3 \in Values :
        ( /\ Call(pq.compare, v1, v2) = 0
          /\ Call(pq.compare, v2, v3) = 0
          /\ Call(pq.compare, v1, v3) = 0 ) =>
            LET first == Pop(PushedThree(pq, v1, v2, v3))
                second == Pop(first.q)
                third == Pop(second.q)
                other == Pop(PushedAroundPop(pq, v1, v2, v3))
            IN  /\ first.item = 1
                /\ second.item = 3
                /\ third.item = 2
                /\ other.item = 2
                /\ Pop(other.q).item = 3

\* Three values of equal priority were pushed into an empty queue, the
\* second differing from the first and third in a field the comparison
\* ignores, and two Pops returned the first and the third.
C29_Witness ==
    /\ mode = "drain"
    /\ last = [op |-> "Pop", err |-> "nil"]
    /\ Len(drain.in) = 3
    /\ Len(drain.out) = 2
    /\ Size(pq) = 1
    /\ \A i, j \in 1..3 : Call(pq.compare, drain.in[i], drain.in[j]) = 0
    /\ drain.in[1] = drain.in[3]
    /\ drain.in[2] # drain.in[1]
    /\ drain.out = <<drain.in[1], drain.in[3]>>
    /\ ValueAt(pq, 0) = drain.in[2]
    /\ pq.Index[3] = -1
    /\ pq.Index[2] = 0

\* ------------------------------------------------------------------------ C30
\* C30: Clear discards every Item handle: each Item that was queued has an
\* invalidated position (Index -1) after Clear, and a Remove or UpdateItem
\* called later with such a handle neither removes nor repositions an Item
\* pushed after the Clear.
C30_ClearDiscardsHandles ==
    \A stale \in QueuedItems(pq) :
        LET cleared == Clear(pq)
        IN  /\ cleared.Index[stale] = -1
            /\ nextItem <= PushLimit =>
                  \A v \in Values :
                      LET q == Push(cleared, nextItem, v)
                      IN  /\ Queued(Remove(q, stale).q, nextItem)
                          /\ UpdateItem(q, stale).q.items = q.items

\* ------------------------------------------------------------------------ C31
\* C31: Remove called with a handle that was popped or removed before
\* (Index -1) aborts with an index out of range before any write: no Item
\* is removed, and the backing array, every Index, every Value and Size()
\* stay as they were, for an empty and for a non-empty queue.
C31_RemoveStalePanics ==
    \A item \in 1..(nextItem - 1) :
        pq.Index[item] = -1 =>
            LET r == Remove(pq, item)
            IN  /\ r.err = "panic"
                /\ r.q.items = pq.items
                /\ r.q.Index = pq.Index
                /\ r.q.Value = pq.Value
                /\ Size(r.q) = Size(pq)

\* Remove was called with a handle that had left a queue which still holds
\* other Items, and panicked.
C31_Witness ==
    /\ mode = "handles"
    /\ last = [op |-> "Remove", err |-> "panic"]
    /\ Size(pq) >= 2
    /\ \E item \in 1..(nextItem - 1) : pq.Index[item] = -1

\* ------------------------------------------------------------------------ C32
\* C32: on a queue that satisfies the heap invariant, UpdateItem for a queued
\* Item whose Value was not written leaves the backing array, every Index and
\* every Value as they were, so does a second call, and neither fails.
C32_UpdateItemUnwrittenNoOp ==
    HeapInvariant(pq) =>
        \A item \in QueuedItems(pq) :
            LET r == UpdateItem(pq, item)
                again == UpdateItem(r.q, item)
            IN  /\ r.err = "nil"
                /\ r.q = pq
                /\ again.err = "nil"
                /\ again.q = pq

\* UpdateItem was called without a write on a queue of four Items in which
\* a child has the priority of its parent.
C32_Witness ==
    /\ mode = "handles"
    /\ last = [op |-> "UpdateItem", err |-> "nil"]
    /\ Size(pq) = MaxItems
    /\ HeapInvariant(pq)
    /\ \E c \in 1..(MaxItems - 1) :
          Call(pq.compare, ValueAt(pq, c), ValueAt(pq, Parent(c))) = 0

\* ------------------------------------------------------------------------ C33
\* C33: ReverseCompare reverses any comparison function: for every int that
\* c(a, b) returns, ReverseCompare(c)(a, b) is negative iff c(a, b) is
\* positive, positive iff c(a, b) is negative, and zero iff c(a, b) is zero.
C33_ReverseCompareReverses ==
    compared.called =>
        /\ compared.reversed < 0 <=> compared.got > 0
        /\ compared.reversed > 0 <=> compared.got < 0
        /\ compared.reversed = 0 <=> compared.got = 0

\* ------------------------------------------------------------------------ C34
\* C34: every Push, Pop, Remove and UpdateItem (with a queued handle)
\* finishes; while it runs, the number of its swaps is at most the height
\* floor(log2) of the heap of the elements being sifted (all of them in Push
\* and UpdateItem, all but the last in Pop and Remove), plus the one
\* root/last swap of Pop or Remove; and it returns with the queue the
\* operation is to produce.
C34_TerminatesWithinHeight ==
    /\ [](run.op # "idle" =>
            LET sifted == IF run.op \in {"Pop", "Remove"} THEN run.n ELSE Size(pq)
                height == Cardinality({k \in 1..MaxGrown : 2^k <= sifted})
                extra == IF run.op \in {"Pop", "Remove"} THEN 1 ELSE 0
            IN  run.swaps <= height + extra)
    /\ [][run.op # "idle" /\ run'.op = "idle" => pq' = run.expect]_vars
    /\ (run.op # "idle") ~> (run.op = "idle")

\* A Pop of a queue of four Items has made its root/last swap and one swap
\* of down, the most that three sifted elements allow.
C34_Witness ==
    /\ mode = "sift"
    /\ run.op = "Pop"
    /\ run.n = MaxItems - 1
    /\ run.swaps = 2
    /\ run.i = 1

\* ------------------------------------------------------------------------ C35
\* C35: a loop that repeats while IsEmpty() is false and only reads the front
\* of the Queue in each round ends, having visited the pushed values once
\* each, in the order they were pushed.
C35_ReadOnlyLoopEnds ==
    /\ [](/\ Len(iter.seen) <= Len(iter.pushed)
          /\ iter.seen = SubSeq(iter.pushed, 1, Len(iter.seen)))
    /\ (iter.pc = "loop") ~> (iter.pc = "done" /\ iter.seen = iter.pushed)

=============================================================================
